---- MODULE Spec2Model ----
(***************************************************************************)
(* A model of the rustsnake Battlesnake engine.                            *)
(*                                                                         *)
(*   Board model   src/src/game_state.rs  (GameState, move_snake,          *)
(*                 resolve_collisions, get_safe_moves)                     *)
(*   Heuristic     src/src/heuristic.rs   (board control by flood fill)    *)
(*   Search        src/src/search.rs      (MCTS over joint moves)          *)
(*                                                                         *)
(* Cell indices are row-major, 0-based.  Vec<Snake> is a function on       *)
(* 0..n-1 so that snake indices are the code's; a body (VecDeque) is a     *)
(* sequence whose first element is the head (front).                       *)
(***************************************************************************)
EXTENDS Integers, Sequences, FiniteSets, Bags, TLC

(***************************************************************************)
(* usize::MAX, the off-board sentinel.  The code only compares it, never   *)
(* computes with it, so any value that is no cell index stands for it.     *)
(***************************************************************************)
UsizeMax == 2147483647

Direction == {"Up", "Down", "Left", "Right"}

\* Option<Direction>::None, and the "no call" entry of the ply record
None == "None"

----------------------------------------------------------------------------
(* Vec / VecDeque helpers                                                  *)

\* slice.contains(&x)
Contains(seq, x) == \E k \in 1..Len(seq) : seq[k] = x

\* Vec::retain(keep): the elements satisfying keep, in their order
RECURSIVE Retain(_, _)
Retain(seq, drop) ==
    IF seq = <<>> THEN <<>>
    ELSE IF Head(seq) \in drop THEN Retain(Tail(seq), drop)
         ELSE <<Head(seq)>> \o Retain(Tail(seq), drop)

\* a variant that keeps the tail: push_front without pop_back
PushFront_NoPop(body, x) == <<x>> \o body

\* a variant of the head push that drops two segments
PushFront_PopTwo(body, x) == <<x>> \o SubSeq(body, 1, Len(body) - 2)

\* VecDeque::push_front(x) followed by pop_back()
PushFrontPopBack(body, x) == SubSeq(<<x>> \o body, 1, Len(body))

\* u8::saturating_sub
saturating_sub(a, b) == IF a >= b THEN a - b ELSE 0

\* Snake::head
head(snake) == IF Len(snake.body) > 0 THEN snake.body[1] ELSE UsizeMax

\* Snake::length
length(snake) == Len(snake.body)

\* body.iter().skip(1): the cells of the segments behind the head
Skip1(snake) == {snake.body[k] : k \in 2..Len(snake.body)}

NumSnakes(gs) == Cardinality(DOMAIN gs.snakes)

SnakeIdx(gs) == DOMAIN gs.snakes

----------------------------------------------------------------------------
(* GameState::move_snake                                                   *)

\* NewIndex with the column test of Left missing: the step from column 0
\* wraps to the end of the row above
NewIndex_LeftWraps(width, height, head_index, direction) ==
    LET board_size == width * height IN
    CASE direction = "Up" ->
           IF head_index >= width THEN head_index - width ELSE UsizeMax
      [] direction = "Down" ->
           IF head_index + width < board_size THEN head_index + width ELSE UsizeMax
      [] direction = "Left" ->
           IF head_index # 0 THEN head_index - 1 ELSE UsizeMax
      [] direction = "Right" ->
           IF head_index % width # width - 1 THEN head_index + 1 ELSE UsizeMax

\* the match on direction: the cell one step from head_index, or usize::MAX
NewIndex(width, height, head_index, direction) ==
    LET board_size == width * height IN
    CASE direction = "Up" ->
           IF head_index >= width THEN head_index - width ELSE UsizeMax
      [] direction = "Down" ->
           IF head_index + width < board_size THEN head_index + width ELSE UsizeMax
      [] direction = "Left" ->
           IF head_index % width # 0 THEN head_index - 1 ELSE UsizeMax
      [] direction = "Right" ->
           IF head_index % width # width - 1 THEN head_index + 1 ELSE UsizeMax

\* the update of the moved snake: new head in front, tail dropped, health - 1
MovedSnake(snake, new_index) ==
    [snake EXCEPT !.body = PushFrontPopBack(snake.body, new_index),
                  !.health = saturating_sub(snake.health, 1)]

\* a variant of move_snake in which every living snake pays for the move
move_snake_AllAge(gs, snake_index, direction) ==
    IF snake_index \notin SnakeIdx(gs) THEN gs
    ELSE LET snake == gs.snakes[snake_index] IN
         IF snake.health = 0 THEN gs
         ELSE IF head(snake) = UsizeMax THEN gs
         ELSE [gs EXCEPT !.snakes =
                 [j \in SnakeIdx(gs) |->
                    IF j = snake_index
                    THEN MovedSnake(snake, NewIndex(gs.width, gs.height, head(snake), direction))
                    ELSE [gs.snakes[j] EXCEPT !.health = saturating_sub(gs.snakes[j].health, 1)]]]

\* a variant of move_snake without the early return for a head off the board
move_snake_OffBoardToo(gs, snake_index, direction) ==
    IF snake_index \notin SnakeIdx(gs) THEN gs
    ELSE LET snake == gs.snakes[snake_index] IN
         IF snake.health = 0 THEN gs
         ELSE [gs EXCEPT !.snakes[snake_index] =
                  MovedSnake(snake, IF head(snake) = UsizeMax THEN UsizeMax
                                    ELSE NewIndex(gs.width, gs.height, head(snake), direction))]

\* a variant of move_snake without the early return for a dead snake
move_snake_DeadToo(gs, snake_index, direction) ==
    IF snake_index \notin SnakeIdx(gs) THEN gs
    ELSE LET snake == gs.snakes[snake_index] IN
         IF head(snake) = UsizeMax THEN gs
         ELSE [gs EXCEPT !.snakes[snake_index] =
                  MovedSnake(snake, NewIndex(gs.width, gs.height, head(snake), direction))]

move_snake(gs, snake_index, direction) ==
    IF snake_index \notin SnakeIdx(gs) THEN gs
    ELSE LET snake == gs.snakes[snake_index] IN
         IF snake.health = 0 THEN gs
         ELSE IF head(snake) = UsizeMax THEN gs
         ELSE [gs EXCEPT !.snakes[snake_index] =
                  MovedSnake(snake, NewIndex(gs.width, gs.height, head(snake), direction))]

----------------------------------------------------------------------------
(* GameState::resolve_collisions                                           *)

Alive(snake) == snake.health # 0

\* first loop: the living snakes whose head is the off-board sentinel
OutOfBounds(gs) ==
    {i \in SnakeIdx(gs) : Alive(gs.snakes[i]) /\ head(gs.snakes[i]) = UsizeMax}

\* Fed without the push_back of the tail
Fed_NoGrowth(gs, snake) ==
    IF Contains(gs.food, head(snake))
    THEN [snake EXCEPT !.health = 100]
    ELSE snake

\* "Food consumption": health reset and the tail segment pushed again
Fed(gs, snake) ==
    IF Contains(gs.food, head(snake))
    THEN [snake EXCEPT !.health = 100,
                       !.body = IF Len(snake.body) > 0
                                THEN Append(snake.body, snake.body[Len(snake.body)])
                                ELSE snake.body]
    ELSE snake

\* "Hazard damage": applied to the health the food step left
Hazarded(gs, snake, head_cell) ==
    IF Contains(gs.hazards, head_cell)
    THEN [snake EXCEPT !.health = saturating_sub(snake.health, 15)]
    ELSE snake

\* a variant of the second loop's iteration that does not skip dead snakes
FoodAndHazard_DeadToo(gs, snake) == Hazarded(gs, Fed(gs, snake), head(snake))

\* one iteration of the second loop (iter_mut): dead snakes are skipped
FoodAndHazard(gs, snake) ==
    IF ~Alive(snake) THEN snake
    ELSE Hazarded(gs, Fed(gs, snake), head(snake))

\* eaten_food: the head cells of the living snakes that found food
EatenFood(gs) ==
    {head(gs.snakes[i]) : i \in {j \in SnakeIdx(gs) :
        Alive(gs.snakes[j]) /\ Contains(gs.food, head(gs.snakes[j]))}}

\* snakes_to_kill.insert(i) of the hazard branch
HazardKills(gs) ==
    {i \in SnakeIdx(gs) : /\ Alive(gs.snakes[i])
                          /\ Contains(gs.hazards, head(gs.snakes[i]))
                          /\ FoodAndHazard(gs, gs.snakes[i]).health = 0}

\* the state after the second loop and food.retain
AfterFood(gs) ==
    [gs EXCEPT !.snakes = [i \in SnakeIdx(gs) |-> FoodAndHazard(gs, gs.snakes[i])],
               !.food = Retain(gs.food, EatenFood(gs))]

\* head_positions: head index -> the living snakes whose head is there
HeadPositions(gs) ==
    LET living == {i \in SnakeIdx(gs) : Alive(gs.snakes[i])} IN
    [h \in {head(gs.snakes[i]) : i \in living} |->
        {i \in living : head(gs.snakes[i]) = h}]

MaxOf(S) == CHOOSE m \in S : \A x \in S : x <= m

MinOf(S) == CHOOSE m \in S : \A x \in S : m <= x

handle_head_collision(gs, snakes_at_position) ==
    LET lengths == {length(gs.snakes[i]) : i \in snakes_at_position}
        max_length == MaxOf(lengths)
        all_same_length == \A l \in lengths : l = max_length
    IN {i \in snakes_at_position :
          all_same_length \/ length(gs.snakes[i]) < max_length}

\* "Handle head-on collisions": every position holding more than one head
HeadKills(gs) ==
    LET hp == HeadPositions(gs) IN
    UNION {IF Cardinality(hp[h]) > 1 THEN handle_head_collision(gs, hp[h]) ELSE {}
           : h \in DOMAIN hp}

\* body_positions: inserts run in index order, so the highest index wins
BodyPositions(gs) ==
    LET living == {i \in SnakeIdx(gs) : Alive(gs.snakes[i])}
        cells == UNION {Skip1(gs.snakes[i]) : i \in living}
    IN [c \in cells |-> MaxOf({i \in living : c \in Skip1(gs.snakes[i])})]

\* BodyKills without the self-collision test
BodyKills_NoSelf(gs) ==
    LET bp == BodyPositions(gs) IN
    {i \in SnakeIdx(gs) :
        /\ Alive(gs.snakes[i])
        /\ head(gs.snakes[i]) \in DOMAIN bp
        /\ bp[head(gs.snakes[i])] # i}

\* last loop: self-collision, else another living snake's body
BodyKills(gs) ==
    LET bp == BodyPositions(gs) IN
    {i \in SnakeIdx(gs) :
        /\ Alive(gs.snakes[i])
        /\ \/ head(gs.snakes[i]) \in Skip1(gs.snakes[i])
           \/ /\ head(gs.snakes[i]) \in DOMAIN bp
              /\ bp[head(gs.snakes[i])] # i}

\* snakes_to_kill when the function reaches "Update snakes' health"
SnakesToKill(gs) ==
    OutOfBounds(gs) \cup HazardKills(gs)
        \cup HeadKills(AfterFood(gs)) \cup BodyKills(AfterFood(gs))

\* a variant of resolve_collisions that removes the dead snakes from the list
resolve_collisions_DropDead(gs) ==
    LET fed == AfterFood(gs)
        snakes_to_kill == SnakesToKill(gs)
        keep == {i \in SnakeIdx(gs) : i \notin snakes_to_kill /\ fed.snakes[i].health > 0}
    IN [fed EXCEPT !.snakes = [j \in 0..(Cardinality(keep) - 1) |->
            fed.snakes[CHOOSE i \in keep : Cardinality({k \in keep : k < i}) = j]]]

resolve_collisions(gs) ==
    LET fed == AfterFood(gs)
        snakes_to_kill == SnakesToKill(gs)
    IN [fed EXCEPT !.snakes = [i \in SnakeIdx(gs) |->
            IF i \in snakes_to_kill THEN [fed.snakes[i] EXCEPT !.health = 0]
            ELSE fed.snakes[i]]]

----------------------------------------------------------------------------
(* GameState::get_safe_moves                                               *)

\* neck_index == Some(new_index), with neck_index = snake.body.get(1)
IsNeck(snake, new_index) == Len(snake.body) >= 2 /\ snake.body[2] = new_index

\* a variant of get_safe_moves that also drops a direction leading into a
\* segment of another living snake
get_safe_moves_OthersBlock(gs, snake_index) ==
    IF snake_index \notin SnakeIdx(gs) THEN {}
    ELSE LET snake == gs.snakes[snake_index] IN
         IF snake.health = 0 THEN {}
         ELSE IF head(snake) = UsizeMax THEN {}
         ELSE {d \in Direction :
                 LET new_index == NewIndex(gs.width, gs.height, head(snake), d) IN
                 /\ new_index # UsizeMax
                 /\ ~IsNeck(snake, new_index)
                 /\ \A k \in SnakeIdx(gs) \ {snake_index} :
                       gs.snakes[k].health = 0 \/ ~Contains(gs.snakes[k].body, new_index)}

\* a variant of get_safe_moves without the early return for a dead snake
get_safe_moves_DeadToo(gs, snake_index) ==
    IF snake_index \notin SnakeIdx(gs) THEN {}
    ELSE LET snake == gs.snakes[snake_index] IN
         IF head(snake) = UsizeMax THEN {}
         ELSE {d \in Direction :
                 LET new_index == NewIndex(gs.width, gs.height, head(snake), d) IN
                 /\ new_index # UsizeMax
                 /\ ~IsNeck(snake, new_index)}

\* a variant of get_safe_moves that keeps the direction of the neck
get_safe_moves_NeckToo(gs, snake_index) ==
    IF snake_index \notin SnakeIdx(gs) THEN {}
    ELSE LET snake == gs.snakes[snake_index] IN
         IF snake.health = 0 THEN {}
         ELSE IF head(snake) = UsizeMax THEN {}
         ELSE {d \in Direction :
                 NewIndex(gs.width, gs.height, head(snake), d) # UsizeMax}

get_safe_moves(gs, snake_index) ==
    IF snake_index \notin SnakeIdx(gs) THEN {}
    ELSE LET snake == gs.snakes[snake_index] IN
         IF snake.health = 0 THEN {}
         ELSE IF head(snake) = UsizeMax THEN {}
         ELSE {d \in Direction :
                 LET new_index == NewIndex(gs.width, gs.height, head(snake), d) IN
                 /\ new_index # UsizeMax
                 /\ ~IsNeck(snake, new_index)}

----------------------------------------------------------------------------
(* heuristic::calculate_snake_control, calculate_control_percentages       *)

\* u32::MAX, the depth of a cell no snake has reached
U32Max == 2147483647

BoardSize(gs) == gs.width * gs.height

\* a variant in which the segments of a dead snake block cells too
Blocks_DeadToo(snake) ==
    Len(snake.body) > 0 /\ snake.body[1] # UsizeMax

\* the snakes whose segments block cells: alive, with a body, head on a cell
Blocks(snake) ==
    snake.health # 0 /\ Len(snake.body) > 0 /\ snake.body[1] # UsizeMax

\* t of segment k (1 is the head): 0 for the tail, else its 1-based position
VacateTime(snake, k) == IF k = Len(snake.body) THEN 0 ELSE k

\* position_unoccupied_at after the first loop: per cell, the largest t.
\* (The code indexes the vector by every segment of such a snake; the boards
\* of this model keep those segments on the grid.)
PositionUnoccupiedAt(gs) ==
    [pos \in 0..(BoardSize(gs) - 1) |->
        LET ts == UNION { {VacateTime(gs.snakes[i], k) :
                             k \in {m \in 1..Len(gs.snakes[i].body) :
                                      gs.snakes[i].body[m] = pos}}
                          : i \in {j \in SnakeIdx(gs) : Blocks(gs.snakes[j])} }
        IN IF ts = {} THEN 0 ELSE MaxOf(ts)]

\* the second loop: every living on-board head is queued at depth 0, in
\* snake order; a later snake on the same cell overwrites control
RECURSIVE EnqueueHeads(_, _, _)
EnqueueHeads(gs, i, st) ==
    IF i >= NumSnakes(gs) THEN st
    ELSE LET snake == gs.snakes[i]
             h == snake.body[1]
         IN IF h = UsizeMax \/ snake.health = 0
            THEN EnqueueHeads(gs, i + 1, st)
            ELSE EnqueueHeads(gs, i + 1,
                    [queue |-> Append(st.queue, <<h, i, 0>>),
                     min_depth |-> [st.min_depth EXCEPT ![h] = 0],
                     control |-> [st.control EXCEPT ![h] = i]])

\* directions: Up, Down, Left, Right as index offsets
Offsets(gs) == <<0 - gs.width, gs.width, -1, 1>>

\* the body of the inner for loop, for one offset of one dequeued item
Step(gs, unoccupied_at, item, offset, st) ==
    LET pos == item[1]
        snake_id == item[2]
        next_depth == item[3] + 1
        new_pos == pos + offset
    IN IF new_pos < 0 \/ new_pos >= BoardSize(gs) THEN st
       ELSE IF \/ (offset = -1 /\ pos % gs.width = 0)
               \/ (offset = 1 /\ (pos + 1) % gs.width = 0) THEN st
       ELSE IF unoccupied_at[new_pos] > next_depth THEN st
       ELSE IF next_depth < st.min_depth[new_pos]
            THEN [queue |-> Append(st.queue, <<new_pos, snake_id, next_depth>>),
                  min_depth |-> [st.min_depth EXCEPT ![new_pos] = next_depth],
                  control |-> [st.control EXCEPT ![new_pos] = snake_id]]
       ELSE IF next_depth = st.min_depth[new_pos] /\ snake_id < st.control[new_pos]
            THEN [st EXCEPT !.control[new_pos] = snake_id]
       ELSE st

\* while let Some(..) = queue.pop_front()
RECURSIVE Bfs(_, _, _)
Bfs(gs, unoccupied_at, st) ==
    IF st.queue = <<>> THEN st
    ELSE LET item == Head(st.queue)
             offs == Offsets(gs)
             s0 == [st EXCEPT !.queue = Tail(st.queue)]
             s1 == Step(gs, unoccupied_at, item, offs[1], s0)
             s2 == Step(gs, unoccupied_at, item, offs[2], s1)
             s3 == Step(gs, unoccupied_at, item, offs[3], s2)
             s4 == Step(gs, unoccupied_at, item, offs[4], s3)
         IN Bfs(gs, unoccupied_at, s4)

\* the vectors when the queue has run empty
Flooded(gs) ==
    Bfs(gs, PositionUnoccupiedAt(gs),
        EnqueueHeads(gs, 0,
            [queue |-> <<>>,
             min_depth |-> [pos \in 0..(BoardSize(gs) - 1) |-> U32Max],
             control |-> [pos \in 0..(BoardSize(gs) - 1) |-> -1]]))

\* per cell, the index of the snake that controls it, or -1
calculate_snake_control(gs) == Flooded(gs).control

\* Fractions stand for the f32 values: [num, den] in lowest terms.
RECURSIVE Gcd(_, _)
Gcd(a, b) == IF b = 0 THEN a ELSE Gcd(b, a % b)

Frac(n, d) == IF n = 0 THEN [num |-> 0, den |-> 1]
              ELSE [num |-> n \div Gcd(n, d), den |-> d \div Gcd(n, d)]

FracAdd(x, y) == Frac(x.num * y.den + y.num * x.den, x.den * y.den)

FracDiv(x, k) == Frac(x.num, x.den * k)

Zero == Frac(0, 1)

\* per snake, count / board_size
calculate_control_percentages(gs) ==
    LET control == calculate_snake_control(gs) IN
    [i \in SnakeIdx(gs) |->
        Frac(Cardinality({pos \in DOMAIN control : control[pos] = i}),
             BoardSize(gs))]

----------------------------------------------------------------------------
(* Construction: GameState::new, add_snake, add_food, add_hazard           *)

new(width, height) ==
    [width |-> width, height |-> height, snakes |-> <<>>,
     food |-> <<>>, hazards |-> <<>>]

\* snakes.push: the new snake gets the next index
add_snake(gs, id, body, health) ==
    LET n == NumSnakes(gs) IN
    [gs EXCEPT !.snakes = [i \in 0..n |->
        IF i < n THEN gs.snakes[i] ELSE [id |-> id, body |-> body, health |-> health]]]

add_food(gs, index) == [gs EXCEPT !.food = Append(gs.food, index)]

add_hazard(gs, index) == [gs EXCEPT !.hazards = Append(gs.hazards, index)]

\* the ids the boards below give their snakes
SnakeId(i) == <<"s0", "s1", "s2">>[i + 1]

RECURSIVE AddSnakes(_, _, _, _)
AddSnakes(gs, bodies, healths, k) ==
    IF k > Len(bodies) THEN gs
    ELSE AddSnakes(add_snake(gs, SnakeId(k - 1), bodies[k], healths[k]),
                   bodies, healths, k + 1)

RECURSIVE AddFood(_, _)
AddFood(gs, cells) ==
    IF cells = <<>> THEN gs ELSE AddFood(add_food(gs, Head(cells)), Tail(cells))

RECURSIVE AddHazards(_, _)
AddHazards(gs, cells) ==
    IF cells = <<>> THEN gs ELSE AddHazards(add_hazard(gs, Head(cells)), Tail(cells))

----------------------------------------------------------------------------
(* The board machine: a caller that builds a board, then per ply calls     *)
(* move_snake for some snakes in index order (as MCTS::expand and the      *)
(* tests do) and resolve_collisions, possibly twice in a row.              *)

VARIABLES
    gs,      \* the GameState
    prev,    \* the GameState before the last call
    last,    \* the last call: [op, snake_index, direction]
    start,   \* the GameState at the start of the current ply
    moves,   \* per snake, the direction move_snake was called with this ply
    calls,   \* resolve_collisions calls since the last move_snake
    plies    \* plies started so far

vars == <<gs, prev, last, start, moves, calls, plies>>

\* The state of a search (MCTS), unused by the board machine.
VARIABLES
    tree,       \* the nodes alive on the heap: address -> Node
    allocated,  \* addresses handed out so far
    threads,    \* the bag of the worker threads' states:
                \* [pc, current, leaf, selected_child, parent, child_a,
                \*  child_b, rest, control_percentages]
    expired,    \* Instant::now().duration_since(start_time) >= duration
    started     \* tree_policy calls started so far

search_vars == <<tree, allocated, threads, expired, started>>

\* The result of a calculate_snake_control call, unused by the board machine
\* and by the search.
VARIABLES
    control,    \* the vector returned: per cell a snake index or -1
    min_depth   \* its min_depth vector at the return: per cell the tick at
                \* which the cell was reached, or u32::MAX

heuristic_vars == <<control, min_depth>>

\* calculate_snake_control has not been called
NoControl ==
    /\ control = <<>>
    /\ min_depth = <<>>

\* no MCTS has been built
NoSearch ==
    /\ tree = <<>>
    /\ allocated = 0
    /\ threads = EmptyBag
    /\ expired = FALSE
    /\ started = 0

\* plies a run plays
MaxPlies == 1

\* Board layouts: dimensions and bodies (head first).  Cells of the 3x3
\* grid:  0 1 2 / 3 4 5 / 6 7 8 ;  of the 3x2 grid:  0 1 2 / 3 4 5.
Layouts ==
    { [width |-> 3, height |-> 3, bodies |-> << <<1, 0>>, <<3, 6>>, <<5>> >>],
      [width |-> 3, height |-> 3, bodies |-> << <<1, 0, 3, 4>>, <<5, 8>> >>],
      [width |-> 3, height |-> 2, bodies |-> << <<1, 0, 3>>, <<4, 5, 2>> >>] }

\* A board's snakes have DefaultHealth, except that one of them may have one
\* of the OtherHealths: dead, about to starve, too weak for a hazard.  On a
\* board of three snakes that one is the first snake.
DefaultHealth == 90

OtherHealths == {0, 1, 10}

HealthVectors(n) ==
    {[k \in 1..n |-> DefaultHealth]} \cup
    {[k \in 1..n |-> IF k = j THEN h ELSE DefaultHealth] :
        j \in 1..(IF n > 2 THEN 1 ELSE n), h \in OtherHealths}

FoodChoices == { <<>>, <<4, 1>> }

HazardChoices == { <<>>, <<4>> }

Board(layout, n, healths, food, hazards) ==
    AddHazards(AddFood(AddSnakes(new(layout.width, layout.height),
                                 SubSeq(layout.bodies, 1, n), healths, 1),
                       food), hazards)

InitialBoards ==
    UNION { UNION { { Board(layout, n, healths, food, hazards) :
                        healths \in HealthVectors(n),
                        food \in FoodChoices, hazards \in HazardChoices }
                    : n \in 1..Len(layout.bodies) }
            : layout \in Layouts }

NoMoves(board) == [i \in SnakeIdx(board) |-> None]

Init ==
    /\ gs \in InitialBoards
    /\ prev = gs
    /\ last = [op |-> "new", snake_index |-> 0, direction |-> None]
    /\ start = gs
    /\ moves = NoMoves(gs)
    /\ calls = 0
    /\ plies = 0
    /\ NoSearch
    /\ NoControl

\* the call repeats the one before it, on a living snake that call has
\* taken off the board
Repeats(snake_index, direction) ==
    /\ calls = 0
    /\ last = [op |-> "move_snake", snake_index |-> snake_index,
               direction |-> direction]
    /\ snake_index \in SnakeIdx(gs)
    /\ gs.snakes[snake_index].health > 0
    /\ head(gs.snakes[snake_index]) = UsizeMax

\* move_snake(snake_index, direction); the first call after one
\* resolve_collisions starts the next ply.  The snakes of a ply are moved
\* in index order, once each, except that the move of a snake that has left
\* the board may be repeated.  An index out of range is only tried as the
\* first call on a board.
MoveSnake(snake_index, direction) ==
    LET fresh == calls > 0
        sofar == IF fresh THEN NoMoves(gs) ELSE moves
    IN /\ snake_index \notin SnakeIdx(gs) => last.op = "new"
       /\ fresh => plies < MaxPlies /\ calls = 1
       /\ ~fresh => plies > 0 \/ plies < MaxPlies
       /\ \/ \A j \in SnakeIdx(gs) : j >= snake_index => sofar[j] = None
          \/ Repeats(snake_index, direction)
       /\ gs' = move_snake(gs, snake_index, direction)
       /\ prev' = gs
       /\ last' = [op |-> "move_snake", snake_index |-> snake_index,
                   direction |-> direction]
       /\ start' = IF fresh THEN gs ELSE start
       /\ moves' = IF snake_index \in SnakeIdx(gs)
                   THEN [sofar EXCEPT ![snake_index] = direction] ELSE sofar
       /\ calls' = 0
       /\ plies' = IF fresh \/ plies = 0 THEN plies + 1 ELSE plies
       /\ UNCHANGED <<search_vars, heuristic_vars>>

\* resolve_collisions(), at most twice in a row
ResolveCollisions ==
    /\ calls < 2
    /\ gs' = resolve_collisions(gs)
    /\ prev' = gs
    /\ last' = [op |-> "resolve_collisions", snake_index |-> 0, direction |-> None]
    /\ calls' = calls + 1
    /\ UNCHANGED <<start, moves, plies>>
    /\ UNCHANGED <<search_vars, heuristic_vars>>

\* the indices a caller passes: every snake's, and the first one out of range
Indices(board) == 0..NumSnakes(board)

Next ==
    \/ \E snake_index \in Indices(gs), direction \in Direction :
          MoveSnake(snake_index, direction)
    \/ ResolveCollisions

Spec == Init /\ [][Next]_<<vars, search_vars, heuristic_vars>>

----------------------------------------------------------------------------
(* search.rs: the tree search (MCTS).  Nodes live on a heap; a node is     *)
(* freed when neither the root handle, a thread's `current` nor a living   *)
(* node's children map holds it (Arc), and a parent link is Weak.  A step  *)
(* of a thread is one lock().. scope that reads or writes what a thread    *)
(* can change (children, visits, values).  A scope that only reads a       *)
(* node's game_state, which never changes once the node is built, belongs  *)
(* to the step before it: the second is_terminal test of tree_policy and   *)
(* the heuristic at the start of back_propagate.                           *)

\* the root's address; 0 is the parent of a node that has none (Weak::new())
Root == 1

NoNode == 0

\* vec![0.0; number_of_players]
Zeros(game_state) == [i \in SnakeIdx(game_state) |-> Zero]

\* MCTS::new: the heap holding the root node only
MCTS_new(initial_state) ==
    [n \in {Root} |->
        [game_state |-> initial_state,
         value |-> Zeros(initial_state),
         total_value |-> Zeros(initial_state),
         visits |-> 0,
         children |-> <<>>,
         moves |-> <<>>,
         parent |-> NoNode]]

\* a variant of is_terminal that waits until no snake is alive
is_terminal_NoneAlive(game_state) ==
    \A i \in SnakeIdx(game_state) : game_state.snakes[i].health = 0

is_terminal(game_state) ==
    Cardinality({i \in SnakeIdx(game_state) : game_state.snakes[i].health > 0}) <= 1

\* a variant of expand's move lists that also offers a living snake the
\* direction of its neck
SnakesSafeMoves_NeckToo(game_state) ==
    [i \in SnakeIdx(game_state) |->
        IF game_state.snakes[i].health > 0
        THEN LET snake == game_state.snakes[i]
                 on_board == {d \in Direction :
                    NewIndex(game_state.width, game_state.height, head(snake), d) # UsizeMax}
             IN IF on_board = {} THEN {None} ELSE on_board
        ELSE {None}]

\* expand's snakes_safe_moves: per snake its Some(safe move)s, or [None]
\* for a dead snake and for a snake without a safe move
SnakesSafeMoves(game_state) ==
    [i \in SnakeIdx(game_state) |->
        IF game_state.snakes[i].health > 0
        THEN LET safe_moves == get_safe_moves(game_state, i)
             IN IF safe_moves = {} THEN {None} ELSE safe_moves
        ELSE {None}]

\* cartesian_product after the first k lists: every x of the result so far
\* extended by every y of the next list
RECURSIVE Product(_, _)
Product(lists, k) ==
    IF k = 0 THEN {<<>>}
    ELSE {[i \in 0..(k - 1) |-> IF i = k - 1 THEN y ELSE x[i]] :
            x \in Product(lists, k - 1), y \in lists[k - 1]}

\* a variant of cartesian_product that yields one combination only
cartesian_product_OneEach(lists) ==
    {CHOOSE x \in Product(lists, Cardinality(DOMAIN lists)) : TRUE}

\* every way of taking one element of each list
cartesian_product(lists) == Product(lists, Cardinality(DOMAIN lists))

\* expand's inner loop: move_snake(i, direction) for each Some(direction), in
\* index order
RECURSIVE ApplyMoves(_, _, _)
ApplyMoves(game_state, mv, i) ==
    IF i >= NumSnakes(game_state) THEN game_state
    ELSE ApplyMoves(IF mv[i] = None THEN game_state
                    ELSE move_snake(game_state, i, mv[i]), mv, i + 1)

\* the order of all_directions in get_safe_moves; None is a list of its own
DirectionOrder(d) ==
    CASE d = "Up" -> 1 [] d = "Down" -> 2 [] d = "Left" -> 3 [] d = "Right" -> 4
      [] OTHER -> 0

\* the order in which cartesian_product lists the joint moves
Before(a, b) ==
    \E i \in DOMAIN a :
        /\ DirectionOrder(a[i]) < DirectionOrder(b[i])
        /\ \A j \in DOMAIN a : j < i => a[j] = b[j]

\* the children expand builds for the node at address n, at fresh addresses
NewChildren(t, n, first) ==
    LET game_state == t[n].game_state
        move_combinations == cartesian_product(SnakesSafeMoves(game_state))
        addr == [mv \in move_combinations |->
                    first + Cardinality({m \in move_combinations : Before(m, mv)})]
    IN [children |-> addr,
        nodes |-> [c \in {addr[mv] : mv \in move_combinations} |->
            LET mv == CHOOSE m \in move_combinations : addr[m] = c IN
            [game_state |-> resolve_collisions(ApplyMoves(game_state, mv, 0)),
             value |-> Zeros(game_state),
             total_value |-> Zeros(game_state),
             visits |-> 0,
             children |-> <<>>,
             moves |-> mv,
             parent |-> n]]]

Children(t, n) == {t[n].children[mv] : mv \in DOMAIN t[n].children}

\* the addresses kept alive by the nodes in found, whose children are
\* counted already, and by the nodes in reached
RECURSIVE HeldBelow(_, _, _)
HeldBelow(t, found, reached) ==
    IF reached = {} THEN found
    ELSE HeldBelow(t, found \cup reached,
                   UNION {Children(t, n) : n \in reached} \ (found \cup reached))

\* the addresses a set of handles keeps alive
Held(t, handles) == HeldBelow(t, {}, handles)

\* the strong handles a thread has: the `current` of the function it is in,
\* tree_policy's `current` while it is in back_propagate (leaf), the child
\* tree_policy has been given and not yet gone to (selected_child), and the
\* parent back_propagate has upgraded and not yet gone to (parent)
Handles(th) == {th.current, th.leaf, th.selected_child, th.parent} \ {NoNode}

\* The heap once every node that no handle keeps alive is freed.  The
\* strong handles are MCTS::root and the root_clone of every thread, and
\* the handles of the threads; a node's children map holds its children, a
\* node's parent link holds nothing.
Freed(t, thr) ==
    LET handles == {Root} \cup UNION {Handles(th) : th \in BagToSet(thr)}
        held == Held(t, handles)
    IN IF held = DOMAIN t THEN t ELSE [n \in held |-> t[n]]

\* The kind of f32 joint_ucb_value returns for a child.  The exploration
\* term of every player is sqrt(2 ln(parent_visits) / visits): with no
\* visit of the parent ln is -inf and the square root NaN; with one visit of
\* the parent it is sqrt(0 / visits), NaN for an unvisited child and 0 for a
\* visited one; with two or more it is +inf for an unvisited child.
joint_ucb_value(node, parent_visits) ==
    IF parent_visits = 0 THEN "NaN"
    ELSE IF node.visits > 0 THEN "finite"
    ELSE IF parent_visits = 1 THEN "NaN" ELSE "inf"

\* the sum of node.value over the players 0 .. k-1
RECURSIVE SumValue(_, _)
SumValue(value, k) ==
    IF k = 0 THEN Zero ELSE FracAdd(SumValue(value, k - 1), value[k - 1])

FracLess(x, y) == x.num * y.den < y.num * x.den

\* The children max_by's fold can go on with after comparing child_a, the
\* best so far, with child_b: child_a when the comparison says Greater,
\* child_b otherwise; partial_cmp with a NaN counts as Equal.  Two finite
\* values are the sums of the averages plus an exploration term per player
\* that falls as the child's visits grow (and is 0 when the parent has one
\* visit); where the averages and the exploration terms point in different
\* directions, or nothing tells the two apart but rounding, either child
\* can come out.
Compared(t, parent_visits, child_a, child_b) ==
    LET a_ucb_total == joint_ucb_value(t[child_a], parent_visits)
        b_ucb_total == joint_ucb_value(t[child_b], parent_visits)
        a_sum == SumValue(t[child_a].value, Cardinality(DOMAIN t[child_a].value))
        b_sum == SumValue(t[child_b].value, Cardinality(DOMAIN t[child_b].value))
        a_term == IF parent_visits = 1 THEN 0 ELSE 0 - t[child_a].visits
        b_term == IF parent_visits = 1 THEN 0 ELSE 0 - t[child_b].visits
    IN IF a_ucb_total = "NaN" \/ b_ucb_total = "NaN" THEN {child_b}
       ELSE IF b_ucb_total = "inf" THEN {child_b}
       ELSE IF a_ucb_total = "inf" THEN {child_a}
       ELSE IF /\ ~FracLess(a_sum, b_sum) /\ a_term >= b_term
               /\ (FracLess(b_sum, a_sum) \/ a_term > b_term)
            THEN {child_a}
       ELSE IF /\ ~FracLess(b_sum, a_sum) /\ b_term >= a_term
               /\ (FracLess(a_sum, b_sum) \/ b_term > a_term)
            THEN {child_b}
       ELSE {child_a, child_b}


\* threads MCTS::run spawns
NumThreads == 3

\* tree_policy calls a run makes before its time is up, all threads together
MaxIterations == 3

\* Root boards.  Cells of the 2x2 grid:  0 1 / 2 3 ;  of the 3x1 grid:  0 1 2.
\*   - two snakes with one and two safe moves;
\*   - the same with the second snake dead: a terminal root;
\*   - a snake without a safe move next to a snake with one;
\*   - on the 4x1 grid  0 1 2 3  a snake shut in by its own body, the other
\*     snake dead: a terminal root.
RootBoards ==
    { Board([width |-> 4, height |-> 1, bodies |-> << <<0, 1, 2>>, <<3>> >>],
            2, <<DefaultHealth, 0>>, <<>>, <<>>),
      Board([width |-> 2, height |-> 2, bodies |-> << <<0, 1>>, <<3>> >>],
            2, <<DefaultHealth, DefaultHealth>>, <<>>, <<>>),
      Board([width |-> 2, height |-> 2, bodies |-> << <<0, 1>>, <<3>> >>],
            2, <<DefaultHealth, 0>>, <<>>, <<>>),
      Board([width |-> 3, height |-> 1, bodies |-> << <<0, 1>>, <<2>> >>],
            2, <<DefaultHealth, DefaultHealth>>, <<>>, <<>>) }

\* a thread outside tree_policy holds no node but the root
Spawned == [pc |-> "while", current |-> NoNode, leaf |-> NoNode,
            selected_child |-> NoNode, parent |-> NoNode,
            child_a |-> NoNode, child_b |-> NoNode, rest |-> {},
            control_percentages |-> <<>>]

Joined == [Spawned EXCEPT !.pc = "joined"]

\* the closures run spawns are alike and nameless: n of them in one state
\* are n copies of that state
Copies(th, n) == [x \in {th} |-> n]

\* the threads once one in state th has taken a step to state next
Stepped(th, next) == (threads (-) Copies(th, 1)) (+) Copies(next, 1)

\* MCTS::new(initial_state) followed by run(duration, num_threads) up to the
\* spawning of the threads; gs holds initial_state
InitMCTS ==
    /\ gs \in RootBoards
    /\ prev = gs
    /\ last = [op |-> "new", snake_index |-> 0, direction |-> None]
    /\ start = gs
    /\ moves = NoMoves(gs)
    /\ calls = 0
    /\ plies = 0
    /\ tree = MCTS_new(gs)
    /\ allocated = 1
    /\ threads = Copies(Spawned, NumThreads)
    /\ expired = FALSE
    /\ started = 0
    /\ NoControl

\* a variant of Holds in which a thread walking up in back_propagate still
\* holds the locks of the nodes below the one it goes to
Holds_WalkingUp(th) ==
    IF th.pc = "max_by" THEN {th.current}
    ELSE IF th.pc = "compare" THEN {th.current, th.child_a}
    ELSE IF th.pc = "back_propagate" THEN Children(tree, th.current)
    ELSE {}

\* The node locks a thread holds between two of its steps.  Every locked
\* section of tree_policy, expand and back_propagate takes one lock and
\* releases it before the next is taken (back_propagate drops the node
\* before it locks the parent); only select_best_joint_move keeps its
\* node locked while max_by's comparisons lock two children each, child_a
\* first.  The steps that follow an unlock and only move or drop a handle
\* hold no lock and take none.
Holds(th) ==
    IF th.pc = "max_by" THEN {th.current}
    ELSE IF th.pc = "compare" THEN {th.current, th.child_a}
    ELSE {}

\* the node lock the next step of a thread takes
Needs(th) ==
    IF th.pc = "max_by" THEN {th.child_a}
    ELSE IF th.pc = "compare" THEN {th.child_b}
    ELSE IF th.pc \in {"check", "terminal", "expand", "pick", "select",
                       "evaluate", "back_propagate"}
         THEN {th.current}
         ELSE {}

\* Mutex::lock returns: no other thread holds the lock the step takes
CanLock(th) ==
    Needs(th) \cap UNION {Holds(o) : o \in BagToSet(threads (-) Copies(th, 1))} = {}

\* the clock passes start_time + duration
Deadline ==
    /\ ~expired
    /\ expired' = TRUE
    /\ UNCHANGED <<vars, heuristic_vars, tree, allocated, threads, started>>

\* a variant of Enter that does not look at the clock
Enter_Late(th) ==
    /\ th.pc = "while"
    /\ started < MaxIterations
    /\ threads' = Stepped(th, [th EXCEPT !.pc = "check", !.current = Root])
    /\ started' = started + 1
    /\ UNCHANGED <<vars, heuristic_vars, tree, allocated, expired>>

\* run's while condition holds: tree_policy(&root_clone, ec) starts
Enter(th) ==
    /\ th.pc = "while"
    /\ ~expired
    /\ started < MaxIterations
    /\ threads' = Stepped(th, [th EXCEPT !.pc = "check", !.current = Root])
    /\ started' = started + 1
    /\ UNCHANGED <<vars, heuristic_vars, tree, allocated, expired>>

\* run's while condition fails: the thread ends
Exit(th) ==
    /\ th.pc = "while"
    /\ expired
    /\ threads' = Stepped(th, Joined)
    /\ UNCHANGED <<vars, heuristic_vars, tree, allocated, expired, started>>

\* tree_policy, top of the loop: expand_result, under the node's lock
Check(th) ==
    /\ th.pc = "check"
    /\ CanLock(th)
    /\ LET node == tree[th.current]
           expand_result == ~is_terminal(node.game_state) /\ DOMAIN node.children = {}
       IN threads' = Stepped(th, [th EXCEPT !.pc = IF expand_result THEN "expand"
                                                   ELSE "terminal"])
    /\ UNCHANGED <<vars, heuristic_vars, tree, allocated, expired, started>>

\* tree_policy, expand_result false: node_is_terminal, under the node's lock
\* taken again; a terminal node ends the loop
Terminal(th) ==
    /\ th.pc = "terminal"
    /\ CanLock(th)
    /\ LET node_is_terminal == is_terminal(tree[th.current].game_state)
       IN threads' = Stepped(th, [th EXCEPT !.pc = IF node_is_terminal THEN "evaluate"
                                                   ELSE "select"])
    /\ UNCHANGED <<vars, heuristic_vars, tree, allocated, expired, started>>

\* expand(&current): every joint move is inserted with a new node; a key
\* that is already in the map gets the new node, the old one loses its place
Expand(th) ==
    /\ th.pc = "expand"
    /\ CanLock(th)
    /\ LET n == th.current
           built == NewChildren(tree, n, allocated + 1)
           grown == [(built.nodes @@ tree) EXCEPT
                        ![n].children = built.children @@ tree[n].children]
       IN /\ tree' = Freed(grown, threads)
          /\ allocated' = allocated + Cardinality(DOMAIN built.nodes)
    /\ threads' = Stepped(th, [th EXCEPT !.pc = "pick"])
    /\ UNCHANGED <<vars, heuristic_vars, expired, started>>

\* after expand: selected_child is node.children.values().next().cloned(),
\* any child of the map, under the node's lock; with an empty map it is
\* None and the loop ends at the node
Pick(th) ==
    /\ th.pc = "pick"
    /\ CanLock(th)
    /\ LET children == Children(tree, th.current) IN
       IF children = {}
       THEN threads' = Stepped(th, [th EXCEPT !.pc = "evaluate"])
       ELSE \E child \in children :
               threads' = Stepped(th, [th EXCEPT !.pc = "picked",
                                                  !.selected_child = child])
    /\ UNCHANGED <<vars, heuristic_vars, tree, allocated, expired, started>>

\* if let Some(child) = selected_child { current = child; } break: the
\* node's lock is released already; the handle of the node is dropped
Picked(th) ==
    /\ th.pc = "picked"
    /\ threads' = Stepped(th, [th EXCEPT !.pc = "evaluate",
                                         !.current = th.selected_child,
                                         !.selected_child = NoNode])
    /\ tree' = Freed(tree, threads')
    /\ UNCHANGED <<vars, heuristic_vars, allocated, expired, started>>

\* select_best_joint_move(&current, ..) locks the node: without children
\* it returns None and tree_policy's loop ends; with one child max_by
\* returns it uncompared, a clone of it is returned and the node unlocked;
\* else the fold starts with the first child of the map as child_a and the
\* second as child_b, in the map's order, which is arbitrary, and the node
\* stays locked
Select(th) ==
    /\ th.pc = "select"
    /\ CanLock(th)
    /\ LET children == Children(tree, th.current) IN
       IF children = {}
       THEN threads' = Stepped(th, [th EXCEPT !.pc = "evaluate"])
       ELSE \E first \in children :
               IF children = {first}
               THEN threads' = Stepped(th, [th EXCEPT !.pc = "selected",
                                                       !.selected_child = first])
               ELSE \E second \in children \ {first} :
                       threads' = Stepped(th,
                             [th EXCEPT !.pc = "max_by",
                                        !.child_a = first,
                                        !.child_b = second,
                                        !.rest = children \ {first, second}])
    /\ UNCHANGED <<vars, heuristic_vars, tree, allocated, expired, started>>

\* max_by's comparison starts: child_a.lock()
MaxBy(th) ==
    /\ th.pc = "max_by"
    /\ CanLock(th)
    /\ threads' = Stepped(th, [th EXCEPT !.pc = "compare"])
    /\ UNCHANGED <<vars, heuristic_vars, tree, allocated, expired, started>>

\* max_by's comparison: child_b.lock(), the two values are compared and
\* both children unlocked; the fold goes on with the next child of the map,
\* or max_by returns, a clone of the best child is returned and the node
\* is unlocked
Compare(th) ==
    /\ th.pc = "compare"
    /\ CanLock(th)
    /\ \E best \in Compared(tree, tree[th.current].visits, th.child_a, th.child_b) :
          IF th.rest = {}
          THEN threads' = Stepped(th, [th EXCEPT !.pc = "selected",
                                                  !.selected_child = best,
                                                  !.child_a = NoNode,
                                                  !.child_b = NoNode])
          ELSE \E following \in th.rest :
                  threads' = Stepped(th, [th EXCEPT !.pc = "max_by",
                                                     !.child_a = best,
                                                     !.child_b = following,
                                                     !.rest = th.rest \ {following}])
    /\ UNCHANGED <<vars, heuristic_vars, tree, allocated, expired, started>>

\* Some(child) => current = child: tree_policy goes to the child
\* select_best_joint_move returned, the node's lock released already; the
\* handle of the node is dropped
Selected(th) ==
    /\ th.pc = "selected"
    /\ threads' = Stepped(th, [th EXCEPT !.pc = "check",
                                         !.current = th.selected_child,
                                         !.selected_child = NoNode])
    /\ tree' = Freed(tree, threads')
    /\ UNCHANGED <<vars, heuristic_vars, allocated, expired, started>>

\* back_propagate(&current) starts: its own handle of the node tree_policy
\* ended at, and the control percentages of that node's game state, under
\* the node's lock
Evaluate(th) ==
    /\ th.pc = "evaluate"
    /\ CanLock(th)
    /\ threads' = Stepped(th,
          [th EXCEPT !.pc = "back_propagate",
                     !.leaf = th.current,
                     !.control_percentages =
                         calculate_control_percentages(tree[th.current].game_state)])
    /\ UNCHANGED <<vars, heuristic_vars, tree, allocated, expired, started>>

\* one pass of back_propagate's loop under the node's lock: the counters
\* are updated and node.parent is upgraded; Some(parent) is a handle of the
\* parent, with None the loop ends; the lock is released
BackPropagate(th) ==
    /\ th.pc = "back_propagate"
    /\ CanLock(th)
    /\ LET n == th.current
           node == tree[n]
           visits == node.visits + 1
           total_value == [i \in DOMAIN node.total_value |->
                             IF i \in DOMAIN th.control_percentages
                             THEN FracAdd(node.total_value[i], th.control_percentages[i])
                             ELSE node.total_value[i]]
           updated == [tree EXCEPT ![n] =
                         [node EXCEPT !.visits = visits,
                                      !.total_value = total_value,
                                      !.value = [i \in DOMAIN total_value |->
                                                   FracDiv(total_value[i], visits)]]]
       IN /\ threads' = Stepped(th, IF node.parent \in DOMAIN tree
                                    THEN [th EXCEPT !.pc = "ascend",
                                                    !.parent = node.parent]
                                    ELSE [th EXCEPT !.pc = "break"])
          /\ tree' = updated
    /\ UNCHANGED <<vars, heuristic_vars, allocated, expired, started>>

\* current = parent, after drop(node): the handle of the node is dropped
Ascend(th) ==
    /\ th.pc = "ascend"
    /\ threads' = Stepped(th, [th EXCEPT !.pc = "back_propagate",
                                         !.current = th.parent,
                                         !.parent = NoNode])
    /\ tree' = Freed(tree, threads')
    /\ UNCHANGED <<vars, heuristic_vars, allocated, expired, started>>

\* None => break: back_propagate returns and its handle is dropped
Break(th) ==
    /\ th.pc = "break"
    /\ threads' = Stepped(th, [th EXCEPT !.pc = "return", !.current = NoNode])
    /\ tree' = Freed(tree, threads')
    /\ UNCHANGED <<vars, heuristic_vars, allocated, expired, started>>

\* tree_policy returns Ok(()): its handle of the node it ended at is dropped
Return(th) ==
    /\ th.pc = "return"
    /\ threads' = Stepped(th, Spawned)
    /\ tree' = Freed(tree, threads')
    /\ UNCHANGED <<vars, heuristic_vars, allocated, expired, started>>

NextMCTS ==
    \/ Deadline
    \/ \E th \in BagToSet(threads) :
          \/ Enter(th)
          \/ Exit(th)
          \/ Check(th)
          \/ Terminal(th)
          \/ Expand(th)
          \/ Pick(th)
          \/ Picked(th)
          \/ Select(th)
          \/ MaxBy(th)
          \/ Compare(th)
          \/ Selected(th)
          \/ Evaluate(th)
          \/ BackPropagate(th)
          \/ Ascend(th)
          \/ Break(th)
          \/ Return(th)

SpecMCTS == InitMCTS /\ [][NextMCTS]_<<vars, search_vars, heuristic_vars>>

\* what a spawned thread does once it is inside run's loop or at its end
Work ==
    \E th \in BagToSet(threads) :
        \/ Exit(th)
        \/ Check(th)
        \/ Terminal(th)
        \/ Expand(th)
        \/ Pick(th)
        \/ Picked(th)
        \/ Select(th)
        \/ MaxBy(th)
        \/ Compare(th)
        \/ Selected(th)
        \/ Evaluate(th)
        \/ BackPropagate(th)
        \/ Ascend(th)
        \/ Break(th)
        \/ Return(th)

\* the threads inside tree_policy
InFlight == {th \in BagToSet(threads) : th.pc \notin {"while", "joined"}}

\* Work can take a step: a thread at run's while sees the time is up, or a
\* thread inside tree_policy gets the lock of its next step
Ready ==
    \E th \in BagToSet(threads) :
        \/ th.pc = "while" /\ expired
        \/ th \in InFlight /\ CanLock(th)


\* A step of Work as it shows in the state: the threads change and no
\* iteration starts.  Every step of Work changes the pc or the node of one
\* thread; Enter is the one step that counts an iteration; Deadline leaves
\* the threads alone.
WorkStep == threads' # threads /\ started' = started

\* the steps of Work are the steps WorkStep describes
WorkIsWorkStep == [][Work <=> WorkStep]_<<vars, search_vars, heuristic_vars>>

\* The run under its scheduling: the clock goes on, so the deadline comes
\* (weak fairness of Deadline), and the operating system runs a thread
\* that is able to run (weak fairness of Work, its enabling condition
\* written as the state predicate Ready and its steps as WorkStep).
SpecMCTSFair ==
    /\ SpecMCTS
    /\ WF_<<vars, search_vars, heuristic_vars>>(Deadline)
    /\ \/ []<>(~Ready)
       \/ []<><<WorkStep>>_<<vars, search_vars, heuristic_vars>>

\* run has joined every thread and returned
Returned == BagToSet(threads) = {Joined}

\* position(|s| s.id == our_snake_id) in the root's game state, an Option:
\* the set of the first index with that id, or the empty set
Position(game_state, our_snake_id) ==
    LET found == {i \in SnakeIdx(game_state) : game_state.snakes[i].id = our_snake_id}
    IN IF found = {} THEN {} ELSE {MinOf(found)}

\* a variant of get_best_move_for_snake that reads any child of the root
get_best_move_for_snake_AnyChild(t, our_snake_id) ==
    IF Children(t, Root) = {} THEN {None}
    ELSE LET index == Position(t[Root].game_state, our_snake_id)
         IN {IF index = {} THEN None
             ELSE LET i == CHOOSE k \in index : TRUE IN
                  IF i \in DOMAIN t[best_child].moves
                  THEN t[best_child].moves[i] ELSE None
             : best_child \in Children(t, Root)}

\* a variant of get_best_move_for_snake that falls back to a direction
get_best_move_for_snake_Guessing(t, our_snake_id) ==
    IF Children(t, Root) = {} THEN {"Up"}
    ELSE LET most == MaxOf({t[c].visits : c \in Children(t, Root)})
             index == Position(t[Root].game_state, our_snake_id)
         IN {IF index = {} THEN "Up"
             ELSE LET i == CHOOSE k \in index : TRUE IN
                  IF i \in DOMAIN t[best_child].moves /\ t[best_child].moves[i] # None
                  THEN t[best_child].moves[i] ELSE "Up"
             : best_child \in {c \in Children(t, Root) : t[c].visits = most}}

\* The values get_best_move_for_snake(our_snake_id) can return: max_by_key
\* yields a child with the most visits, the later one in the map's arbitrary
\* iteration order when several have as many.
get_best_move_for_snake(t, our_snake_id) ==
    IF Children(t, Root) = {} THEN {None}
    ELSE LET most == MaxOf({t[c].visits : c \in Children(t, Root)})
             index == Position(t[Root].game_state, our_snake_id)
         IN {IF index = {} THEN None
             ELSE LET i == CHOOSE k \in index : TRUE IN
                  IF i \in DOMAIN t[best_child].moves
                  THEN t[best_child].moves[i] ELSE None
             : best_child \in {c \in Children(t, Root) : t[c].visits = most}}

----------------------------------------------------------------------------
(* The heuristic machine: calculate_snake_control is called once on a      *)
(* board.  The boards are those a caller can hold: a board it built, the   *)
(* game state of a child that expand builds from one, or a board on which  *)
(* it has moved one snake.                                                 *)

\* the game states of the children expand builds for a node holding board b
ChildStates(b) ==
    {resolve_collisions(ApplyMoves(b, mv, 0)) :
        mv \in cartesian_product(SnakesSafeMoves(b))}

\* the boards after one call of move_snake on board b
MovedStates(b) == {move_snake(b, i, d) : i \in SnakeIdx(b), d \in Direction}

\* the board of the heuristic test's "Simple two snake scenario"
TwoSnakeBoard ==
    Board([width |-> 5, height |-> 5, bodies |-> << <<0, 1, 2>>, <<24, 23, 22>> >>],
          2, <<100, 100>>, <<>>, <<>>)

ControlBoards ==
    InitialBoards
      \cup UNION {ChildStates(b) : b \in InitialBoards}
      \cup UNION {MovedStates(b) : b \in InitialBoards}
      \cup {TwoSnakeBoard}

InitControl ==
    /\ gs \in ControlBoards
    /\ prev = gs
    /\ last = [op |-> "new", snake_index |-> 0, direction |-> None]
    /\ start = gs
    /\ moves = NoMoves(gs)
    /\ calls = 0
    /\ plies = 0
    /\ NoSearch
    /\ NoControl

\* calculate_snake_control(&game_state)
CalculateSnakeControl ==
    /\ control = <<>>
    /\ LET flooded == Flooded(gs) IN
          /\ control' = flooded.control
          /\ min_depth' = flooded.min_depth
    /\ UNCHANGED <<vars, search_vars>>

NextControl == CalculateSnakeControl

SpecControl == InitControl /\ [][NextControl]_<<vars, search_vars, heuristic_vars>>

----------------------------------------------------------------------------
(* Claims about the search                                                 *)

\* the ids get_best_move_for_snake is asked about: every snake's, and one
\* that no snake has
AskedIds == {gs.snakes[i].id : i \in SnakeIdx(gs)} \cup {"nobody"}

\* C1: once run has returned, get_best_move_for_snake(id) is None or one of
\* the directions get_safe_moves gives, on the board MCTS::new was given,
\* for the index of the snake with that id.
C1_BestMoveIsSafe ==
    Returned =>
        \A id \in AskedIds :
            \A answer \in get_best_move_for_snake(tree, id) :
                \/ answer = None
                \/ \E index \in Position(gs, id) :
                      answer \in get_safe_moves(gs, index)

\* run has returned, the root's children are those of a second expansion
\* (two threads found the root without children), and a snake that has a
\* direction it must not take (its neck) is answered with a direction
C1_Witness ==
    /\ Returned
    /\ \E c \in Children(tree, Root) : c > 1 + Cardinality(Children(tree, Root))
    /\ \E i \in SnakeIdx(gs) :
          /\ Len(gs.snakes[i].body) >= 2
          /\ get_best_move_for_snake(tree, gs.snakes[i].id) \cap Direction # {}

----------------------------------------------------------------------------
(* Vocabulary of the board claims.  A ply is the move_snake calls since    *)
(* `start` followed by resolve_collisions; at the state after that call,   *)
(* `prev` is the board the call was made on.                               *)

Resolved == last.op = "resolve_collisions"

\* the first resolve_collisions after the moves of the ply
PlyDone == Resolved /\ calls = 1

OnBoard(board, c) == c \in 0..(board.width * board.height - 1)

Living(board) == {i \in SnakeIdx(board) : board.snakes[i].health > 0}

\* snake i was alive with its head on the grid and move_snake was called on it
Moved(i) ==
    /\ moves[i] # None
    /\ start.snakes[i].health > 0
    /\ OnBoard(start, head(start.snakes[i]))

Row(board, c) == c \div board.width

Col(board, c) == c % board.width

\* the step from cell c in direction d crosses an edge of the grid
LeavesGrid(board, c, d) ==
    \/ d = "Up" /\ Row(board, c) = 0
    \/ d = "Down" /\ Row(board, c) = board.height - 1
    \/ d = "Left" /\ Col(board, c) = 0
    \/ d = "Right" /\ Col(board, c) = board.width - 1

\* the cell one step from c in direction d, for a step that stays on the grid
Neighbour(board, c, d) ==
    CASE d = "Up" -> c - board.width
      [] d = "Down" -> c + board.width
      [] d = "Left" -> c - 1
      [] d = "Right" -> c + 1

\* the cell snake i's move of this ply leads to (the sentinel off the grid)
Target(i) ==
    IF LeavesGrid(start, head(start.snakes[i]), moves[i]) THEN UsizeMax
    ELSE Neighbour(start, head(start.snakes[i]), moves[i])

Cells(snake) == {snake.body[k] : k \in 1..Len(snake.body)}

\* on board b, the head of snake i touches another living snake's head or a
\* segment behind the head of a living snake (its own included)
Contact(b, i) ==
    \E k \in Living(b) :
        \/ k # i /\ head(b.snakes[k]) = head(b.snakes[i])
        \/ head(b.snakes[i]) \in Skip1(b.snakes[k])

\* the living snakes of board b whose head is on cell c
HeadsOn(b, c) == {i \in Living(b) : head(b.snakes[i]) = c}

\* the body of snake i after its move of this ply: the target in front,
\* the old tail dropped
Shifted(i) ==
    LET body == start.snakes[i].body IN
    <<Target(i)>> \o SubSeq(body, 1, Len(body) - 1)

\* a body with its last segment duplicated
Grown(body) == Append(body, body[Len(body)])

\* on board b, the hazard under snake j's head drains it to 0 (no food there)
Drained(b, j) ==
    /\ Contains(b.hazards, head(b.snakes[j]))
    /\ ~Contains(b.food, head(b.snakes[j]))
    /\ b.snakes[j].health <= 15

----------------------------------------------------------------------------
(* Claims about the board model                                            *)

\* C2 (as claimed): resolve_collisions is idempotent - a second call in a row,
\* with no move_snake in between, leaves the state of the first call unchanged.
C2_ResolveIdempotent == (Resolved /\ calls = 2) => gs = prev

\* C3 (as claimed): when exactly two living snakes have their heads on one cell
\* after the moves of a ply, resolve_collisions kills both if their lengths are
\* equal and the shorter one if they differ; the longer one stays alive (unless
\* another rule of the same call kills it: a draining hazard, a body under it).
C3_HeadOn ==
    PlyDone =>
      \A i, j \in Living(prev) :
        ( /\ i # j
          /\ OnBoard(prev, head(prev.snakes[i]))
          /\ HeadsOn(prev, head(prev.snakes[i])) = {i, j} ) =>
            /\ length(prev.snakes[i]) = length(prev.snakes[j]) =>
                  gs.snakes[i].health = 0 /\ gs.snakes[j].health = 0
            /\ length(prev.snakes[i]) < length(prev.snakes[j]) =>
                  /\ gs.snakes[i].health = 0
                  /\ \/ gs.snakes[j].health > 0
                     \/ Drained(prev, j)
                     \/ \E k \in Living(prev) :
                           head(prev.snakes[j]) \in Skip1(prev.snakes[k])

\* C4 (as claimed): a living snake that moves onto a food cell ends the ply one
\* segment longer (tail duplicated), with health 100, and the food cell is gone.
C4_EatsAsClaimed ==
    PlyDone =>
      \A i \in SnakeIdx(gs) :
        (Moved(i) /\ Contains(start.food, Target(i))) =>
            /\ gs.snakes[i].body = Grown(Shifted(i))
            /\ gs.snakes[i].health = 100
            /\ ~Contains(gs.food, Target(i))

\* C4 (amended): a living snake with health at least 2 that moves onto a food
\* cell that is not a hazard cell ends the ply one segment longer (tail
\* duplicated) and the food cell is gone; its health is 100, or 0 when a
\* collision of the same call kills it - which happens only when its head
\* touches another living head or a living snake's body, and always to a
\* one-segment snake, whose duplicated segment lies under its own head.
C4_Eats ==
    PlyDone =>
      \A i \in SnakeIdx(gs) :
        (Moved(i) /\ start.snakes[i].health >= 2
                  /\ Contains(start.food, Target(i))
                  /\ ~Contains(start.hazards, Target(i))) =>
            /\ gs.snakes[i].body = Grown(Shifted(i))
            /\ ~Contains(gs.food, Target(i))
            /\ \/ /\ gs.snakes[i].health = 0
                  /\ Contact(prev, i) \/ Len(start.snakes[i].body) = 1
               \/ gs.snakes[i].health = 100
            /\ Len(start.snakes[i].body) = 1 => gs.snakes[i].health = 0
            /\ (~Contact(prev, i) /\ Len(start.snakes[i].body) >= 2)
                  => gs.snakes[i].health > 0

\* a snake has eaten on a cell without a hazard and lives, one segment longer
C4_Witness ==
    /\ PlyDone
    /\ \E i \in SnakeIdx(gs) :
          /\ Moved(i) /\ start.snakes[i].health >= 2
          /\ Contains(start.food, Target(i))
          /\ ~Contains(start.hazards, Target(i))
          /\ gs.snakes[i].health = 100
          /\ Len(gs.snakes[i].body) = Len(start.snakes[i].body) + 1

\* C5: a living snake whose move steps off an edge of the grid gets the
\* off-board sentinel as its new head, its other segments shifted (no wrap);
\* after resolve_collisions its health is 0 and that body is still in the state.
C5_OffBoard ==
    \A i \in SnakeIdx(gs) :
      (Moved(i) /\ LeavesGrid(start, head(start.snakes[i]), moves[i])) =>
          /\ (calls = 0 \/ PlyDone) =>
                gs.snakes[i].body =
                    <<UsizeMax>> \o SubSeq(start.snakes[i].body, 1,
                                           Len(start.snakes[i].body) - 1)
          /\ PlyDone => gs.snakes[i].health = 0

C5_Witness ==
    /\ PlyDone
    /\ \E i \in SnakeIdx(gs) :
          /\ Moved(i) /\ LeavesGrid(start, head(start.snakes[i]), moves[i])
          /\ start.snakes[i].health > 1
          /\ Len(gs.snakes[i].body) >= 2
          /\ head(gs.snakes[i]) = UsizeMax
          /\ gs.snakes[i].health = 0

\* C6 (as claimed): hazard damage replaces the per-move cost - a snake whose
\* move lands on a hazard cell without food ends the ply with health lower by
\* exactly 15 (saturating at 0), and on a plain cell lower by exactly 1.
\* (Snakes in contact with another snake or a body are left out.)
C6_HazardReplacesMoveCost ==
    PlyDone =>
      \A i \in SnakeIdx(gs) :
        ( /\ Moved(i)
          /\ OnBoard(start, Target(i))
          /\ ~Contains(start.food, Target(i))
          /\ ~Contact(prev, i) ) =>
            gs.snakes[i].health =
                IF Contains(start.hazards, Target(i))
                THEN (IF start.snakes[i].health >= 15
                      THEN start.snakes[i].health - 15 ELSE 0)
                ELSE start.snakes[i].health - 1

\* C7 (as claimed): when two or more living heads are on one food cell, the food
\* is removed once and only the lowest-indexed of them grows and is reset to
\* 100; the others neither grow nor have their health reset.
C7_OneConsumer ==
    Resolved =>
      \A k \in 1..Len(prev.food) :
        LET eaters == HeadsOn(prev, prev.food[k]) IN
        Cardinality(eaters) >= 2 =>
            /\ ~Contains(gs.food, prev.food[k])
            /\ \A i \in eaters :
                  Len(gs.snakes[i].body) =
                     Len(prev.snakes[i].body) + (IF i = MinOf(eaters) THEN 1 ELSE 0)
            /\ \A i \in eaters \ {MinOf(eaters)} : gs.snakes[i].health # 100

\* C8 (as claimed): the deaths of one resolve_collisions call are computed
\* against the snakes alive when the call started - a living snake whose head
\* is on a segment behind the head of a snake of that snapshot dies, and so
\* does one that shares its head cell with a snapshot snake at least as long,
\* whether or not that other snake is itself killed in the call.
C8_PreDeathSnapshot ==
    Resolved =>
      \A i \in Living(prev) :
        OnBoard(prev, head(prev.snakes[i])) =>
            /\ (\E k \in Living(prev) :
                    head(prev.snakes[i]) \in Skip1(prev.snakes[k]))
                  => gs.snakes[i].health = 0
            /\ (\E k \in Living(prev) \ {i} :
                    /\ head(prev.snakes[k]) = head(prev.snakes[i])
                    /\ length(prev.snakes[k]) >= length(prev.snakes[i]))
                  => gs.snakes[i].health = 0

\* C9 (as claimed): a living snake whose head, after the moves of the ply, is on
\* a segment behind the head of another living snake is dead after
\* resolve_collisions, and the snake that was hit is not killed by that
\* collision (it lives unless a rule of its own kills it).
C9_BodyCollision ==
    PlyDone =>
      \A i, j \in Living(prev) :
        ( /\ i # j
          /\ OnBoard(prev, head(prev.snakes[i]))
          /\ head(prev.snakes[i]) \in Skip1(prev.snakes[j]) ) =>
            /\ gs.snakes[i].health = 0
            /\ ( /\ OnBoard(prev, head(prev.snakes[j]))
                 /\ ~Drained(prev, j)
                 /\ ~Contact(prev, j) ) => gs.snakes[j].health > 0

\* C10: a living snake whose head, after its move, is on a cell of its own body
\* behind the head is dead after resolve_collisions, and every food cell that
\* is under no living head stays in the food list.
C10_SelfCollision ==
    Resolved =>
      /\ \A i \in Living(prev) :
            head(prev.snakes[i]) \in Skip1(prev.snakes[i]) =>
                gs.snakes[i].health = 0
      /\ \A k \in 1..Len(prev.food) :
            HeadsOn(prev, prev.food[k]) = {} => Contains(gs.food, prev.food[k])

C10_Witness ==
    /\ PlyDone
    /\ \E i \in Living(prev) :
          /\ Moved(i)
          /\ head(prev.snakes[i]) \in Skip1(prev.snakes[i])
          /\ gs.snakes[i].health = 0
    /\ \E k \in 1..Len(prev.food) :
          HeadsOn(prev, prev.food[k]) = {} /\ Contains(gs.food, prev.food[k])

\* snakes i and j, alive with heads on the grid, both moved this ply, each
\* onto the cell the other's head was on
Swapped(i, j) ==
    /\ i # j
    /\ Moved(i) /\ Moved(j)
    /\ Target(i) = head(start.snakes[j])
    /\ Target(j) = head(start.snakes[i])

\* C11 (as claimed): two snakes of equal length, at least 2, that each move
\* onto the cell the other's head occupied and are both alive when
\* resolve_collisions is called both have health 0 after it.
C11_NoPassThrough ==
    PlyDone =>
      \A i, j \in Living(prev) :
        ( /\ Swapped(i, j)
          /\ Len(start.snakes[i].body) = Len(start.snakes[j].body)
          /\ Len(start.snakes[i].body) >= 2 ) =>
            gs.snakes[i].health = 0 /\ gs.snakes[j].health = 0

\* snake i moved this ply onto the cell its own tail was on, its last two
\* segments being on different cells
ChasedTail(i) ==
    LET body == start.snakes[i].body IN
    /\ Moved(i)
    /\ Len(body) >= 2
    /\ body[Len(body)] # body[Len(body) - 1]
    /\ Target(i) = body[Len(body)]

\* C12 (as claimed): a living snake that moves its head onto the cell its own
\* tail occupied is alive after resolve_collisions, with its health reduced
\* by exactly 1.
C12_TailChaseAsClaimed ==
    PlyDone =>
      \A i \in SnakeIdx(gs) :
        ChasedTail(i) =>
            /\ gs.snakes[i].health > 0
            /\ gs.snakes[i].health = start.snakes[i].health - 1

\* C12 (amended): a snake with health at least 2 that moves its head onto the
\* cell its own tail occupied, that cell holding no food, no hazard and,
\* after the moves, no segment of another living snake, is alive after
\* resolve_collisions with its health reduced by exactly 1 and its body
\* shifted by one cell.
C12_TailChase ==
    PlyDone =>
      \A i \in SnakeIdx(gs) :
        ( /\ ChasedTail(i)
          /\ start.snakes[i].health >= 2
          /\ ~Contains(prev.food, Target(i))
          /\ ~Contains(prev.hazards, Target(i))
          /\ \A k \in Living(prev) \ {i} : Target(i) \notin Cells(prev.snakes[k]) ) =>
            /\ gs.snakes[i].health = start.snakes[i].health - 1
            /\ gs.snakes[i].health > 0
            /\ gs.snakes[i].body = Shifted(i)

\* a snake of four segments has moved onto its tail's cell and lives on, with
\* another living snake on the board
C12_Witness ==
    /\ PlyDone
    /\ \E i \in SnakeIdx(gs) :
          /\ ChasedTail(i)
          /\ Len(start.snakes[i].body) = 4
          /\ gs.snakes[i].health = start.snakes[i].health - 1
          /\ gs.snakes[i].health > 0
          /\ Living(gs) \ {i} # {}

\* snake i moved this ply with health 1
Starved(i) == Moved(i) /\ start.snakes[i].health = 1

\* C13 (as claimed): a snake with health 1 that moves has health 0 after the
\* ply and its body advanced by one cell; when its new head is on a food cell
\* it does not grow and the food cell stays in the food list.
C13_StarvesAsClaimed ==
    PlyDone =>
      \A i \in SnakeIdx(gs) :
        Starved(i) =>
            /\ gs.snakes[i].health = 0
            /\ gs.snakes[i].body = Shifted(i)
            /\ Contains(start.food, Target(i)) => Contains(gs.food, Target(i))

\* C13 (amended): a snake with health 1 that moves has health 0 after the ply
\* and its body advanced by one cell, not grown; a food cell under its new
\* head stays in the food list exactly when no living snake's head is on it.
C13_Starves ==
    PlyDone =>
      \A i \in SnakeIdx(gs) :
        Starved(i) =>
            /\ gs.snakes[i].health = 0
            /\ gs.snakes[i].body = Shifted(i)
            /\ Contains(start.food, Target(i)) =>
                  (Contains(gs.food, Target(i)) <=> HeadsOn(prev, Target(i)) = {})

\* a snake with health 1 has moved onto a food cell, which is still listed,
\* and is dead with its body no longer than before
C13_Witness ==
    /\ PlyDone
    /\ \E i \in SnakeIdx(gs) :
          /\ Starved(i)
          /\ Contains(start.food, Target(i))
          /\ Contains(gs.food, Target(i))
          /\ gs.snakes[i].health = 0
          /\ Len(gs.snakes[i].body) = Len(start.snakes[i].body)

\* C14: once a snake's health is 0, every later move_snake and
\* resolve_collisions call leaves its health at 0 and its body unchanged, also
\* while its head cell holds food.
C14_DeathIsFinal ==
    [][\A i \in SnakeIdx(gs) :
          gs.snakes[i].health = 0 =>
              /\ gs'.snakes[i].health = 0
              /\ gs'.snakes[i].body = gs.snakes[i].body]_<<vars, search_vars, heuristic_vars>>

\* a snake that was dead when the ply started, with its head on a food cell,
\* has had move_snake called on it and resolve_collisions after that, and is
\* as it was
C14_Witness ==
    /\ Resolved
    /\ \E i \in SnakeIdx(gs) :
          /\ start.snakes[i].health = 0
          /\ moves[i] # None
          /\ Contains(prev.food, head(prev.snakes[i]))
          /\ gs.snakes[i] = start.snakes[i]

\* the id stored at each index of a board
Ids(board) == [i \in SnakeIdx(board) |-> board.snakes[i].id]

\* C15: no move_snake or resolve_collisions call changes the number of
\* snakes, their order or the id stored at an index; dead snakes stay listed.
C15_SnakesRetained ==
    last.op # "new" => Ids(gs) = Ids(prev)

\* resolve_collisions has killed one of three snakes, and each index still
\* holds the id it held when the ply started
C15_Witness ==
    /\ PlyDone
    /\ NumSnakes(gs) = 3
    /\ \E i \in Living(prev) : gs.snakes[i].health = 0
    /\ Ids(gs) = Ids(start)

\* the directions that, from the head of snake i of board b, lead to a cell
\* of the grid that is not the snake's second segment
InsideNotNeck(b, i) ==
    LET snake == b.snakes[i] IN
    {d \in Direction :
        /\ ~LeavesGrid(b, head(snake), d)
        /\ Len(snake.body) >= 2 => Neighbour(b, head(snake), d) # snake.body[2]}

\* C16: for a living snake with its head on the board, get_safe_moves returns
\* exactly the directions whose target cell is inside the grid, without
\* wrapping between rows, and is not the snake's neck.
C16_SafeMovesExact ==
    \A i \in Living(gs) :
        OnBoard(gs, head(gs.snakes[i])) =>
            get_safe_moves(gs, i) = InsideNotNeck(gs, i)

\* after a ply, a living snake at an edge of the grid with its neck beside
\* its head: the edge and the neck each take a direction away
C16_Witness ==
    /\ PlyDone
    /\ \E i \in Living(gs) :
          /\ OnBoard(gs, head(gs.snakes[i]))
          /\ Moved(i)
          /\ \E d \in Direction : LeavesGrid(gs, head(gs.snakes[i]), d)
          /\ \E d \in Direction :
                /\ ~LeavesGrid(gs, head(gs.snakes[i]), d)
                /\ Neighbour(gs, head(gs.snakes[i]), d) = gs.snakes[i].body[2]
                /\ d \notin get_safe_moves(gs, i)
          /\ Cardinality(get_safe_moves(gs, i)) = 2

\* The board that keeps of board b only its dimensions and the body and
\* health of snake i: no food, no hazards, no snake after i, and before i
\* dead snakes without a body.  Two boards that agree on the dimensions and
\* on snake i's body and health have the same such board.
OnlySnake(b, i) ==
    [width |-> b.width, height |-> b.height, food |-> <<>>, hazards |-> <<>>,
     snakes |-> [k \in 0..i |->
        IF k = i THEN [id |-> "", body |-> b.snakes[i].body, health |-> b.snakes[i].health]
        ELSE [id |-> "", body |-> <<>>, health |-> 0]]]

\* C17: get_safe_moves(i) depends only on the dimensions and on snake i's
\* body and health: it is what it is on the board without the other snakes,
\* the food and the hazards.
C17_SafeMovesIgnoreOthers ==
    \A i \in SnakeIdx(gs) :
        get_safe_moves(gs, i) = get_safe_moves(OnlySnake(gs, i), i)

\* after a ply, a direction reported as safe leads into a segment of another
\* living snake
C17_Witness ==
    /\ PlyDone
    /\ \E i \in Living(gs) : \E d \in get_safe_moves(gs, i) :
          \E k \in Living(gs) \ {i} :
              Neighbour(gs, head(gs.snakes[i]), d) \in Cells(gs.snakes[k])

----------------------------------------------------------------------------
(* Claims about the heuristic                                              *)

\* calculate_snake_control has returned
Called == control # <<>>

\* the snakes that take part: alive, with their head on the board
Flooding(b) == {i \in Living(b) : OnBoard(b, head(b.snakes[i]))}

\* the cells one step from c on the grid, without wrapping between rows
Around(b, c) == {Neighbour(b, c, d) : d \in {e \in Direction : ~LeavesGrid(b, c, e)}}

\* the ways cell c is reached from its neighbours: <<snake, tick>> for every
\* neighbour that a snake holds, the tick being one after the neighbour's and
\* not before c is unoccupied
Arrivals(c) ==
    {<<control[n], min_depth[n] + 1>> :
        n \in {m \in Around(gs, c) : /\ control[m] # -1
                                     /\ PositionUnoccupiedAt(gs)[c] <= min_depth[m] + 1}}

\* C18 (as claimed): a cell goes to a snake that reaches it at the earliest
\* tick any snake reaches it, and among the snakes that reach it at that
\* tick to the one with the lowest index; a head cell is reached at tick 0
\* by the snakes whose head is on it.
C18_TiesToLowerIndex ==
    Called =>
      \A c \in DOMAIN control :
        LET heads == {i \in Flooding(gs) : head(gs.snakes[i]) = c}
            ticks == {a[2] : a \in Arrivals(c)}
        IN IF heads # {}
           THEN min_depth[c] = 0 /\ control[c] = MinOf(heads)
           ELSE IF ticks = {}
           THEN control[c] = -1
           ELSE /\ min_depth[c] = MinOf(ticks)
                /\ control[c] = MinOf({a[1] : a \in {b \in Arrivals(c) : b[2] = MinOf(ticks)}})

\* board b with the body of every snake that is dead or off the board taken
\* off the grid
Cleared(b) ==
    [b EXCEPT !.snakes =
        [i \in SnakeIdx(b) |->
            IF i \in Flooding(b) THEN b.snakes[i]
            ELSE [b.snakes[i] EXCEPT !.body = <<UsizeMax>>]]]

\* every entry is -1 or the index of a living snake with its head on the
\* board, and the result is the one of the board without the bodies of the
\* other snakes
OnlyFlooding ==
    /\ \A c \in DOMAIN control : control[c] = -1 \/ control[c] \in Flooding(gs)
    /\ control = calculate_snake_control(Cleared(gs))

\* C19 (as claimed): every entry is -1 or the index of a living on-board
\* snake, a dead or off-board snake controls and blocks no cell, and with a
\* single living snake every entry is 0 or -1.
C19_ControlAsClaimed ==
    Called =>
      /\ OnlyFlooding
      /\ Cardinality(Living(gs)) = 1 => \A c \in DOMAIN control : control[c] \in {0, -1}

\* C19 (amended): every entry is -1 or the index of a living on-board snake,
\* a dead or off-board snake controls and blocks no cell, and with a single
\* living snake every entry is the index of that snake or -1.
C19_Control ==
    Called =>
      /\ OnlyFlooding
      /\ \A k \in SnakeIdx(gs) :
            Living(gs) = {k} => \A c \in DOMAIN control : control[c] \in {k, -1}

\* snake 1 is the only living snake and controls a cell under the body of
\* the dead snake 0
C19_Witness ==
    /\ Called
    /\ Living(gs) = {1}
    /\ \E c \in Cells(gs.snakes[0]) : OnBoard(gs, c) /\ control[c] = 1

\* cell c is where a living on-board snake has its head
HeadCell(c) == \E i \in Flooding(gs) : head(gs.snakes[i]) = c

\* C20: the cell under segment i (head = 0) of a living snake,
\* the tail included, is reached by no snake at a tick smaller than i + 1.
C20_VacateAsClaimed ==
    Called =>
      \A s \in Flooding(gs) :
        \A k \in 1..Len(gs.snakes[s].body) :
          LET c == gs.snakes[s].body[k] IN
          ~HeadCell(c) => min_depth[c] >= k

----------------------------------------------------------------------------
(* Claims about move_snake and get_safe_moves as single calls              *)

\* the state after a call of move_snake; prev is the board it was called on
MoveDone == last.op = "move_snake"

\* the arguments of that call make move_snake return at once: index out of
\* range, dead snake, or head off the board
Refused ==
    \/ last.snake_index \notin SnakeIdx(prev)
    \/ prev.snakes[last.snake_index].health = 0
    \/ head(prev.snakes[last.snake_index]) = UsizeMax

\* C25: move_snake(i, d) changes only snake i's body and health: the other
\* snakes, the food, the hazards and the dimensions are as before, snake i
\* keeps its id and its length, and it loses no more than the one health
\* point of the move, whatever its head runs into.
C25_MoveFrame ==
    MoveDone =>
      LET i == last.snake_index IN
      /\ gs.width = prev.width /\ gs.height = prev.height
      /\ gs.food = prev.food /\ gs.hazards = prev.hazards
      /\ DOMAIN gs.snakes = DOMAIN prev.snakes
      /\ \A j \in SnakeIdx(prev) \ {i} : gs.snakes[j] = prev.snakes[j]
      /\ i \in SnakeIdx(prev) =>
            /\ gs.snakes[i].id = prev.snakes[i].id
            /\ Len(gs.snakes[i].body) = Len(prev.snakes[i].body)
            /\ gs.snakes[i].health >= prev.snakes[i].health - 1

\* snake i has just moved its head onto a segment of another living snake
\* and is alive, one health point down
C25_Witness ==
    /\ MoveDone
    /\ ~Refused
    /\ LET i == last.snake_index IN
       /\ gs.snakes[i].health = prev.snakes[i].health - 1
       /\ gs.snakes[i].health > 0
       /\ gs.snakes[i].body # prev.snakes[i].body
       /\ \E k \in Living(gs) \ {i} : head(gs.snakes[i]) \in Cells(gs.snakes[k])

\* C26: move_snake leaves the whole state as it was when the index is out of
\* range, when the snake is dead and when its head is the off-board sentinel.
C26_MoveRefused == MoveDone /\ Refused => gs = prev

\* move_snake has been called again on a living snake whose head is off the
\* board, and nothing changed
C26_Witness ==
    /\ MoveDone
    /\ last.snake_index \in SnakeIdx(prev)
    /\ prev.snakes[last.snake_index].health > 0
    /\ head(prev.snakes[last.snake_index]) = UsizeMax
    /\ gs = prev

\* C27: get_safe_moves returns the empty set when the index is out of range,
\* when the snake is dead and when its head is the off-board sentinel.
C27_NoSafeMoves ==
    \A i \in Indices(gs) :
        (\/ i \notin SnakeIdx(gs)
         \/ gs.snakes[i].health = 0
         \/ head(gs.snakes[i]) = UsizeMax) => get_safe_moves(gs, i) = {}

\* a dead snake that would have a safe move if it were alive, beside a
\* living snake whose head is off the board
C27_Witness ==
    /\ \E i \in SnakeIdx(gs) :
          /\ gs.snakes[i].health = 0
          /\ OnBoard(gs, head(gs.snakes[i]))
          /\ InsideNotNeck(gs, i) # {}
          /\ get_safe_moves(gs, i) = {}
    /\ \E i \in Living(gs) :
          head(gs.snakes[i]) = UsizeMax /\ get_safe_moves(gs, i) = {}

\* steps on the grid between cells a and c of board b
Steps(b, a, c) ==
    LET dr == Row(b, a) - Row(b, c)
        dc == Col(b, a) - Col(b, c)
    IN (IF dr < 0 THEN 0 - dr ELSE dr) + (IF dc < 0 THEN 0 - dc ELSE dc)

\* the cells snake i controls
Controlled(i) == {c \in DOMAIN control : control[c] = i}

\* C28: a snake is assigned only cells at most 3 steps from its head, a cell
\* more than 3 steps from every living head is unclaimed, and on the 5x5
\* board with snakes [0,1,2] and [24,23,22] each snake controls exactly 10
\* cells and the 5 cells of the anti-diagonal are unclaimed.
C28_ControlWithinThreeSteps ==
    Called =>
      /\ \A c \in DOMAIN control :
            /\ control[c] # -1 => Steps(gs, head(gs.snakes[control[c]]), c) <= 3
            /\ (\A i \in Flooding(gs) : Steps(gs, head(gs.snakes[i]), c) > 3)
                  => control[c] = -1
      /\ gs = TwoSnakeBoard =>
            /\ Cardinality(Controlled(0)) = 10
            /\ Cardinality(Controlled(1)) = 10
            /\ Controlled(-1) = {4, 8, 12, 16, 20}

----------------------------------------------------------------------------
(* Claims about scoring, selection and the tree                            *)

One == Frac(1, 1)

\* the value vector the claim gives a terminal board: 1 for the survivor
TerminalScore(game_state) ==
    [i \in SnakeIdx(game_state) |->
        IF game_state.snakes[i].health > 0 THEN One ELSE Zero]

\* C21: a terminal node that has been evaluated has the value 1 for the sole
\* surviving snake and 0 for every other snake (all zeros without a
\* survivor): every vector backed up through it is its own, since it never
\* has children, and value is the mean of those vectors.
C21_TerminalScoring ==
    \A n \in DOMAIN tree :
        is_terminal(tree[n].game_state) /\ tree[n].visits > 0
            => tree[n].value = TerminalScore(tree[n].game_state)

\* the children of the root that no other child of the root has more visits than
MostVisited ==
    {c \in Children(tree, Root) :
        \A o \in Children(tree, Root) : tree[c].visits >= tree[o].visits}

\* C22: a direction that get_best_move_for_snake returns for a snake is that
\* snake's component of the joint move of a child of the root that has at
\* least as many visits as every other child of the root.
C22_MostVisitedChild ==
    Returned =>
        \A id \in AskedIds :
            \A answer \in get_best_move_for_snake(tree, id) :
                answer # None =>
                    \E c \in MostVisited :
                        \E index \in Position(tree[Root].game_state, id) :
                            tree[c].moves[index] = answer

\* the root has a child with more visits than another, the two differ in a
\* snake's direction, and that snake is answered with the direction of the
\* first
C22_Witness ==
    /\ Returned
    /\ \E c \in MostVisited :
         \E o \in Children(tree, Root) :
            /\ tree[o].visits < tree[c].visits
            /\ \E i \in SnakeIdx(gs) :
                  /\ tree[c].moves[i] # tree[o].moves[i]
                  /\ get_best_move_for_snake(tree, gs.snakes[i].id) = {tree[c].moves[i]}

\* C23: after a run in which a worker has completed an iteration, a snake of
\* the board that has a safe move on it is answered with a direction.
C23_MoveWhenSafe ==
    Returned /\ tree[Root].visits > 0 =>
        \A i \in SnakeIdx(gs) :
            get_safe_moves(gs, i) # {} =>
                None \notin get_best_move_for_snake(tree, gs.snakes[i].id)

\* C24: get_best_move_for_snake returns None when the root has no children,
\* when no snake of the root board has the id, and when the snake with the
\* id is dead or has no safe move on the root board.
C24_NoMove ==
    Returned =>
        \A id \in AskedIds :
            (\/ Children(tree, Root) = {}
             \/ Position(gs, id) = {}
             \/ \E i \in Position(gs, id) :
                   gs.snakes[i].health = 0 \/ get_safe_moves(gs, i) = {})
                => get_best_move_for_snake(tree, id) = {None}

\* the root has children, one snake is alive without a safe move and is
\* answered None, as is the id that no snake has, while the other snake is
\* answered with a direction
C24_Witness ==
    /\ Returned
    /\ Children(tree, Root) # {}
    /\ \E i \in Living(gs) :
          /\ get_safe_moves(gs, i) = {}
          /\ get_best_move_for_snake(tree, gs.snakes[i].id) = {None}
    /\ get_best_move_for_snake(tree, "nobody") = {None}
    /\ \E i \in Living(gs) :
          get_best_move_for_snake(tree, gs.snakes[i].id) \cap Direction # {}

\* C29: a node that is the child of a node for a joint move stays that
\* node's child for that joint move, and its parent stays in the tree, at
\* every step of a run.
C29_NodesKept ==
    [][\A n \in DOMAIN tree :
          \A mv \in DOMAIN tree[n].children :
             /\ n \in DOMAIN tree'
             /\ mv \in DOMAIN tree'[n].children
             /\ tree'[n].children[mv] = tree[n].children[mv]
      ]_<<vars, search_vars, heuristic_vars>>

\* C30: when run has returned, the root has as many visits as tree_policy
\* was called by all threads together.
C30_RootCountsIterations == Returned => tree[Root].visits = started

----------------------------------------------------------------------------
(* Claims about heads, bodies and food after resolve_collisions            *)

\* C37: after a resolve_collisions call no two living snakes have their
\* heads on the same cell.
C37_OneHeadPerCell ==
    Resolved =>
        \A i, j \in Living(gs) :
            i # j => head(gs.snakes[i]) # head(gs.snakes[j])

\* C39: after every move_snake and resolve_collisions call every snake has a
\* body, no body is shorter than before the call, and every living snake
\* with its head on the board has all its segments on the board.
C39_BodiesOnBoard ==
    \A i \in SnakeIdx(gs) :
        /\ Len(gs.snakes[i].body) >= 1
        /\ i \in SnakeIdx(prev) => Len(gs.snakes[i].body) >= Len(prev.snakes[i].body)
        /\ gs.snakes[i].health > 0 /\ OnBoard(gs, head(gs.snakes[i]))
              => \A c \in Cells(gs.snakes[i]) : OnBoard(gs, c)

\* after a ply one snake has grown, and another, that has left the board
\* with the rest of its body still on it, is dead
C39_Witness ==
    /\ PlyDone
    /\ \E i \in Living(gs) :
          /\ Len(gs.snakes[i].body) > Len(start.snakes[i].body)
          /\ \A c \in Cells(gs.snakes[i]) : OnBoard(gs, c)
    /\ \E i \in SnakeIdx(gs) :
          /\ head(gs.snakes[i]) = UsizeMax
          /\ Len(gs.snakes[i].body) >= 2
          /\ gs.snakes[i].health = 0

----------------------------------------------------------------------------
(* Food removal of resolve_collisions in src/snake/src/game_state.rs        *)

\* self.food.iter().position(|&f| f == head): the 0-based index of the
\* first food cell equal to the head
FoodPosition(food, cell) ==
    CHOOSE k \in 0..(Len(food) - 1) :
        /\ food[k + 1] = cell
        /\ \A m \in 0..(k - 1) : food[m + 1] # cell

\* eaten_food after the food loop: one food index per living snake whose
\* head is on a food cell, in snake order
RECURSIVE EatenFoodFrom(_, _)
EatenFoodFrom(board, i) ==
    IF i >= NumSnakes(board) THEN <<>>
    ELSE LET snake == board.snakes[i]
         IN IF snake.health # 0 /\ Contains(board.food, head(snake))
            THEN <<FoodPosition(board.food, head(snake))>>
                     \o EatenFoodFrom(board, i + 1)
            ELSE EatenFoodFrom(board, i + 1)

eaten_food(board) == EatenFoodFrom(board, 0)

\* Vec::swap_remove(index): the last element takes the place of the removed
\* one; an index that is not below the length panics
swap_remove(v, index) ==
    IF index >= Len(v) THEN [panicked |-> TRUE, food |-> v]
    ELSE [panicked |-> FALSE,
          food |-> SubSeq([v EXCEPT ![index + 1] = v[Len(v)]], 1, Len(v) - 1)]

\* for index in eaten_food.into_iter().rev() { self.food.swap_remove(index) }
\* with k indices of eaten still to be removed
RECURSIVE RemoveEaten(_, _, _)
RemoveEaten(food, eaten, k) ==
    IF k = 0 THEN [panicked |-> FALSE, food |-> food]
    ELSE LET r == swap_remove(food, eaten[k])
         IN IF r.panicked THEN r ELSE RemoveEaten(r.food, eaten, k - 1)

\* the food list the variant's resolve_collisions leaves, or its panic
remove_eaten_food(board) ==
    RemoveEaten(board.food, eaten_food(board), Len(eaten_food(board)))

\* the food cells under the head of a living snake
UnderLivingHead(board) ==
    {head(board.snakes[i]) : i \in Living(board)}
        \cap {board.food[k] : k \in 1..Len(board.food)}

\* C40: on the board a resolve_collisions call was made on, the variant's
\* food removal does not fault and leaves exactly the food cells that are
\* not under the head of a living snake.
C40_FoodRemoved ==
    Resolved =>
        LET r == remove_eaten_food(prev)
        IN /\ ~r.panicked
           /\ {r.food[k] : k \in 1..Len(r.food)}
                 = {prev.food[k] : k \in 1..Len(prev.food)}
                       \ UnderLivingHead(prev)
           /\ Len(r.food) = Len(prev.food) - Cardinality(UnderLivingHead(prev))

\* the removal faults
C40_Faults == Resolved /\ remove_eaten_food(prev).panicked

\* the removal takes a food cell no head is on
C40_WrongCell ==
    /\ Resolved
    /\ ~remove_eaten_food(prev).panicked
    /\ \E k \in 1..Len(prev.food) :
          /\ prev.food[k] \notin UnderLivingHead(prev)
          /\ ~Contains(remove_eaten_food(prev).food, prev.food[k])

----------------------------------------------------------------------------
(* Claims about expansion, terminal nodes and selection                    *)

\* the joint moves that give every living snake with a safe move one of its
\* safe moves and every other snake None
JointMoves(game_state) ==
    LET allowed == [i \in SnakeIdx(game_state) |->
                      LET safe == IF game_state.snakes[i].health > 0
                                  THEN get_safe_moves(game_state, i) ELSE {}
                      IN IF safe = {} THEN {None} ELSE safe]
    IN {mv \in [SnakeIdx(game_state) -> Direction \cup {None}] :
           \A i \in SnakeIdx(game_state) : mv[i] \in allowed[i]}

\* the children of node n of heap t are the full product of its board
FullProduct(t, n) ==
    /\ DOMAIN t[n].children = JointMoves(t[n].game_state)
    /\ \A mv \in DOMAIN t[n].children :
          LET child == t[t[n].children[mv]]
          IN /\ child.moves = mv
             /\ DOMAIN child.moves = SnakeIdx(t[n].game_state)
             /\ child.game_state =
                   resolve_collisions(ApplyMoves(t[n].game_state, mv, 0))

\* C33: a step that gives a node children, or changes them, leaves it with
\* children keyed by exactly the joint moves of its board; a child's moves
\* are its key, one entry per snake, and its board is the parent's board
\* after move_snake for every Some move in index order and one
\* resolve_collisions.  (A new node has no children.)
C33_FullProduct ==
    [][\/ tree' = tree
       \/ \A n \in DOMAIN tree' :
             IF n \in DOMAIN tree /\ tree'[n].children = tree[n].children
             THEN TRUE
             ELSE IF n \in DOMAIN tree THEN FullProduct(tree', n)
             ELSE DOMAIN tree'[n].children = {}
      ]_<<vars, search_vars, heuristic_vars>>

\* an expanded node with several children that is itself the child of an
\* expanded node, and a snake that moved into each of its children
C33_Witness ==
    \E n \in DOMAIN tree :
        /\ n # Root
        /\ Cardinality(DOMAIN tree[n].children) >= 2
        /\ \A mv \in DOMAIN tree[n].children :
              \E i \in DOMAIN mv :
                  /\ mv[i] # None
                  /\ tree[tree[n].children[mv]].game_state.snakes[i].body
                        # tree[n].game_state.snakes[i].body

\* the snakes of a board that are alive
AliveSnakes(game_state) ==
    {i \in SnakeIdx(game_state) : game_state.snakes[i].health > 0}

\* C34: a node with at most one living snake on its board never has
\* children, the root's board is the board MCTS::new was given, and no step
\* changes the board of a node.
C34_TerminalStays ==
    /\ [](\A n \in DOMAIN tree :
              /\ is_terminal(tree[n].game_state)
                    <=> Cardinality(AliveSnakes(tree[n].game_state)) <= 1
              /\ Cardinality(AliveSnakes(tree[n].game_state)) <= 1
                    => DOMAIN tree[n].children = {})
    /\ [](tree[Root].game_state = gs)
    /\ [][\/ tree' = tree
          \/ \A n \in DOMAIN tree \cap DOMAIN tree' :
                tree'[n].game_state = tree[n].game_state
         ]_<<vars, search_vars, heuristic_vars>>

\* a terminal node, one living snake on its board, that was evaluated and
\* has no children, below a root that has children
C34_Witness ==
    \E n \in DOMAIN tree :
        /\ n # Root
        /\ Cardinality(AliveSnakes(tree[n].game_state)) = 1
        /\ tree[n].visits > 0
        /\ DOMAIN tree[n].children = {}
        /\ DOMAIN tree[Root].children # {}

\* C35: a step of select_best_joint_move that returns a child with a
\* positive visit count is taken only when no child of the node has zero
\* visits.
C35_UnvisitedFirst ==
    [][\A th \in {x \in BagToSet(threads) : x.pc \in {"select", "compare"}} :
          \A c \in Children(tree, th.current) :
              (/\ threads' = Stepped(th, [th EXCEPT !.pc = "selected",
                                                    !.selected_child = c,
                                                    !.child_a = NoNode,
                                                    !.child_b = NoNode])
               /\ tree[c].visits > 0)
                  => \A o \in Children(tree, th.current) : tree[o].visits > 0
      ]_<<vars, search_vars, heuristic_vars>>

\* all the visits of a set of nodes
RECURSIVE SumVisits(_, _)
SumVisits(t, nodes) ==
    IF nodes = {} THEN 0
    ELSE LET n == CHOOSE x \in nodes : TRUE
         IN t[n].visits + SumVisits(t, nodes \ {n})

\* no thread is inside tree_policy
NoIterationInFlight ==
    \A th \in BagToSet(threads) : th.pc \in {"while", "joined"}

\* C38: when no iteration is in flight, a node with children has at least
\* as many visits as its children together and at most one more, and the
\* root has exactly as many.
C38_VisitsConserved ==
    NoIterationInFlight =>
        \A n \in DOMAIN tree :
            DOMAIN tree[n].children # {} =>
                LET below == SumVisits(tree, Children(tree, n))
                IN /\ tree[n].visits >= below
                   /\ tree[n].visits <= below + 1
                   /\ n = Root => tree[n].visits = below

\* the counters of every node agree: no visit and no score, or the mean of
\* the accumulated scores
CountersAgree ==
    \A n \in DOMAIN tree :
        \A i \in DOMAIN tree[n].total_value :
            IF tree[n].visits = 0
            THEN tree[n].total_value[i] = Zero /\ tree[n].value[i] = Zero
            ELSE tree[n].value[i] = FracDiv(tree[n].total_value[i], tree[n].visits)

\* a step that changes a node's counters is one pass of a worker's
\* back_propagate at that node: one visit and the worker's vector are
\* added, and the worker goes on with the same vector or ends
BackedUpTogether ==
    \A n \in DOMAIN tree \cap DOMAIN tree' :
        (\/ tree'[n].visits # tree[n].visits
         \/ tree'[n].total_value # tree[n].total_value
         \/ tree'[n].value # tree[n].value)
            => \E th \in BagToSet(threads) :
                  /\ th.pc = "back_propagate" /\ th.current = n
                  /\ tree'[n].visits = tree[n].visits + 1
                  /\ \A i \in DOMAIN tree[n].total_value :
                        tree'[n].total_value[i]
                            = FracAdd(tree[n].total_value[i], th.control_percentages[i])
                  /\ \/ threads' = Stepped(th, [th EXCEPT !.pc = "break"])
                     \/ threads' = Stepped(th, [th EXCEPT !.pc = "ascend",
                                                           !.parent = tree[n].parent])

\* a worker ends its back_propagate at the root only
WalksToRoot ==
    \A th \in BagToSet(threads) :
        th.pc = "back_propagate" /\ threads' = Stepped(th, [th EXCEPT !.pc = "break"])
            => th.current = Root

\* C32: the counters of every node agree in every state; every step that
\* changes them adds one visit and one worker's vector, the same at every
\* node the worker passes; and the worker passes every node from the
\* evaluated one to the root.
C32_ScoresTogether ==
    /\ []CountersAgree
    /\ [][BackedUpTogether /\ WalksToRoot]_<<vars, search_vars, heuristic_vars>>

\* the first two parts of C32 alone
UpdatedTogether ==
    /\ []CountersAgree
    /\ [][BackedUpTogether]_<<vars, search_vars, heuristic_vars>>

----------------------------------------------------------------------------
(* Claims about locks and about the end of the run                         *)

\* C31: in every state of every interleaving, if a worker is inside
\* tree_policy then some such worker can take the locks of its next step;
\* every node a worker is at is alive; and back_propagate adds its vector
\* to a total_value that has an entry for every index of the vector.
C31_NoDeadlockNoPanic ==
    /\ InFlight # {} => \E th \in InFlight : CanLock(th)
    /\ \A th \in InFlight :
          /\ Handles(th) # {}
          /\ Handles(th) \cup Needs(th) \subseteq DOMAIN tree
          /\ th.pc = "back_propagate" =>
                DOMAIN th.control_percentages \subseteq DOMAIN tree[th.current].total_value

\* a worker walking up waits for a node that another worker, comparing the
\* node's children, keeps locked
C31_Witness ==
    \E a, b \in InFlight :
        /\ a.pc = "max_by"
        /\ b.pc = "back_propagate" /\ b.current = a.current
        /\ ~CanLock(b)
        /\ CanLock(a)

\* two workers are about to expand the same node
BothExpand ==
    \E a \in InFlight : a.pc = "expand" /\ CopiesIn(a, threads) = 2

\* C36: tree_policy is entered only before the deadline; a worker inside
\* tree_policy leaves it only at the end of its back_propagate; run returns
\* in the end; and once it has returned no step changes the tree.
C36_DeadlineOnly ==
    /\ [][started' # started => ~expired]_<<vars, search_vars, heuristic_vars>>
    /\ [][\A th \in InFlight :
             \A next \in {Spawned, Joined} :
                 threads' = Stepped(th, next)
                     => th.pc = "return" /\ next = Spawned
         ]_<<vars, search_vars, heuristic_vars>>
    /\ <>Returned
    /\ [][Returned => tree' = tree /\ Returned']_<<vars, search_vars, heuristic_vars>>

\* the deadline has passed, one worker has ended and another is still
\* back-propagating an iteration it started before
C36_Witness ==
    /\ expired
    /\ started >= 2
    /\ \E th \in BagToSet(threads) : th.pc = "joined"
    /\ \E th \in InFlight : th.pc = "back_propagate" /\ th.current # Root

====
